---- MODULE Spec2Model ----
(***************************************************************************)
(* Model of the sitemap audit tools:                                       *)
(*   - auditSitemapURLs  (range auditor and bounded concurrency sweeper),   *)
(*   - automateAudits    (batch orchestrator over election_groupings.csv),  *)
(*   - SitemapValidator  (content validator and recursive index walker),    *)
(*   - validateMultipleSitemaps, the grouping script (processCsv) and       *)
(*     SitemapHealthCheck.                                                  *)
(* The programs share no runtime state; each has its own specification     *)
(* (SpecSweep, SpecBatch, SpecWalk, SpecContent, SpecMulti, SpecGroup,      *)
(* SpecHealth) over its own variables.                                     *)
(***************************************************************************)
EXTENDS Integers, Sequences, FiniteSets, TLC

(***************************************************************************)
(* Bounds of the model.                                                    *)
(***************************************************************************)
\* data rows of the source URL list (the header row comes on top of these)
MaxRows == 3
\* largest concurrency ceiling tried
MaxConcurrency == 2
\* largest early-stop threshold tried (0 = early stop disabled)
MaxThreshold == 1
\* ranges (rows) of election_groupings.csv
MaxRanges == 2
\* runs of the orchestrator in a row
MaxRuns == 2
\* top-level validateUrl calls made on one validator
MaxCalls == 1
\* largest maxDepth a caller passes explicitly
MaxDepthTried == 2
\* <url> entries of a URL set that are looked at one by one
MaxEntries == 2

Min(a, b) == IF a < b THEN a ELSE b

IsPrefix(s, t) == Len(s) <= Len(t) /\ \A i \in 1..Len(s) : s[i] = t[i]

(***************************************************************************)
(* State.                                                                  *)
(***************************************************************************)
\* auditSitemapURLs
VARIABLES
    passed,             \* the options among outputCsv, firstRow, lastRow that the caller passed
    io,                 \* the I/O objects created so far: csvWriter, readStream
    failure,            \* what went wrong in this execution, if anything
    concurrencyLimit,   \* option concurrencyLimit
    maxNon404Results,   \* option maxNon404Results (early-stop threshold)
    firstRow,           \* option firstRow (0 when not passed)
    lastRow,            \* option lastRow (0 when not passed)
    streamPos,          \* rows the CSV stream has emitted so far (header included)
    rowNumber,          \* let rowNumber
    tasks,              \* const tasks: the data rows handed to limit(), in order
    queue,              \* the limiter's queue of tasks not yet started
    activeCount,        \* the limiter's count of started, unfinished tasks
    inflight,           \* data rows whose axios.get is outstanding
    response,           \* per data row: the outcome its request ended with
    results,            \* const results: the recorded non-200 outcomes
    count404,           \* let count404
    non404ErrorCount,   \* let non404ErrorCount
    shouldStop,         \* let shouldStop
    written,            \* what csvWriter.writeRecords put in the output CSV
    summary,            \* the value the returned promise resolved with
    spc                 \* where the auditor's promise stands

sweepVars == <<passed, io, failure, concurrencyLimit, maxNon404Results, firstRow, lastRow, streamPos,
               rowNumber, tasks, queue, activeCount, inflight, response, results,
               count404, non404ErrorCount, shouldStop, written, summary, spc>>

\* automateAudits
VARIABLES
    store,        \* election_groupings.csv on disk: its data rows, in order
    storeHeader,  \* election_groupings.csv on disk: its header line
    startHeader,  \* the header line as this run found it
    rows,         \* const rows, the rows readCsv returned
    headers,      \* const headers = Object.keys(rows[0]), in key order
    idx,          \* position of the for..of loop in rows
    auditCalls,   \* the calls of auditSitemapURLs made in this run, in order
    auditResult,  \* per row: how its audit ended in this run
    storeWrites,  \* times writeRecords(rows) completed in this run
    startStore,   \* the store as this run found it
    prevRun,      \* how the run before this one went
    runNo,        \* number of the current run
    bpc           \* where run() stands

batchVars == <<store, storeHeader, startHeader, rows, headers, idx, auditCalls, auditResult, storeWrites,
               startStore, prevRun, runNo, bpc>>

\* SitemapValidator
VARIABLES
    stack,        \* the validateUrl activations, outermost first
    fetches,      \* every fetch(url) issued, in order, with the depth option
    done,         \* every validateUrl call that returned, in order of return
    walkResults,  \* what the top-level callers received, in order
    calls         \* number of top-level validateUrl calls made

walkVars == <<stack, fetches, done, walkResults, calls>>

\* SitemapValidator.validateContent on a URL set
VARIABLES
    content,         \* the parsed document handed to validateUrlset
    contentResults   \* what validateContent returned for it, once it has

contentVars == <<content, contentResults>>

(***************************************************************************)
(* validateMultipleSitemaps(paths, options): one SitemapValidator reused   *)
(* for every target.  The validator's errors and warnings are arrays, and  *)
(* a result holds the arrays themselves, so arrays live in a heap and are  *)
(* referred to by their position in it.                                    *)
(***************************************************************************)
VARIABLES
    paths,            \* argument paths: the targets, in order
    recursiveOption,  \* options.recursive as the caller passed it
    heap,             \* every array created so far, by reference
    validator,        \* const validator: the references this.errors, this.warnings
    multiResults,     \* const results: target -> the result object stored for it
    target,           \* position of the for..of loop in paths
    mpc               \* where validateMultipleSitemaps is

multiVars == <<paths, recursiveOption, heap, validator, multiResults, target, mpc>>

(***************************************************************************)
(* The grouping script (processCsv): from the URL list to the range store. *)
(***************************************************************************)
VARIABLES
    inputTail,     \* goodparty_sitemap_urls.csv: the URLs of its rows from startRow on
    dataRows,      \* const rows: the rows the 'data' handler kept
    index,         \* position of rows.forEach (0-based)
    currentState,  \* let currentState ("" is null)
    currentType,   \* let currentType ("" is null)
    startRowNum,   \* let startRowNum
    ranges,        \* const ranges
    groupings,     \* election_groupings.csv as the script wrote it
    gpc            \* where processCsv is

groupVars == <<inputTail, dataRows, index, currentState, currentType, startRowNum,
               ranges, groupings, gpc>>

(***************************************************************************)
(* SitemapHealthCheck: this.results as processUrlset, sampleCheckUrls and  *)
(* checkUrlStatus update it.                                               *)
(***************************************************************************)
VARIABLES
    totalUrls,          \* results.totalUrls
    duplicateUrls,      \* results.duplicateUrls, a Set of locations
    suspiciousUrls,     \* results.suspiciousUrls
    urlsByStatus,       \* results.urlsByStatus: status -> count
    urlsWith404s,       \* results.urlsWith404s
    urlsWithRedirects,  \* results.urlsWithRedirects
    counted,            \* the location of every entry totalUrls counted, in order
    sampling,           \* the entries the running sampleCheckUrls call has yet to take
    hpc                 \* "idle", or "sampling" inside a sampleCheckUrls call

healthVars == <<totalUrls, duplicateUrls, suspiciousUrls, urlsByStatus, urlsWith404s,
                urlsWithRedirects, counted, sampling, hpc>>

vars == <<sweepVars, batchVars, walkVars, contentVars, multiVars, groupVars, healthVars>>

(***************************************************************************)
(* auditSitemapURLs                                                        *)
(***************************************************************************)
\* The source URL list holds a header row and this many data rows.
NumDataRows == MaxRows

DataRows == 1..NumDataRows

\* What one axios.get can end with: a 2xx response (the try branch), an error
\* carrying a response (non-2xx status), an error with a request but no
\* response, or a request that could not be set up.
Outcomes == { [kind |-> "response", status |-> 200],
              [kind |-> "response", status |-> 204],
              [kind |-> "errorResponse", status |-> 404],
              [kind |-> "errorResponse", status |-> 500],
              [kind |-> "noResponse", status |-> 0],
              [kind |-> "setupError", status |-> 0] }

NoOutcome == [kind |-> "pending", status |-> 0]

NoSummary == [count404 |-> -1, non404ErrorCount |-> -1]

RequiredOptions == {"outputCsv", "firstRow", "lastRow"}

\* The call as the caller makes it.  A row option that is passed is 0 or a
\* row number; lastRow is not below firstRow.
InitSweep ==
    /\ passed \in SUBSET RequiredOptions
    /\ io = {}
    /\ failure = "none"
    /\ concurrencyLimit \in 1..MaxConcurrency
    /\ maxNon404Results \in 0..MaxThreshold
    /\ firstRow \in (IF "firstRow" \in passed THEN 0..(NumDataRows + 1) ELSE {0})
    /\ lastRow \in (IF "lastRow" \in passed THEN {0} \cup (firstRow..(NumDataRows + 1)) ELSE {0})
    /\ streamPos = 0
    /\ rowNumber = 0
    /\ tasks = <<>>
    /\ queue = <<>>
    /\ activeCount = 0
    /\ inflight = {}
    /\ response = [r \in DataRows |-> NoOutcome]
    /\ results = <<>>
    /\ count404 = 0
    /\ non404ErrorCount = 0
    /\ shouldStop = FALSE
    /\ written = <<>>
    /\ summary = NoSummary
    /\ spc = "called"

\* A check that looks for missing options only.
ConfigErrorMissingOnly == passed # RequiredOptions

\* !outputCsv || !firstRow || !lastRow: undefined and 0 are both falsy
ConfigError ==
    \/ "outputCsv" \notin passed
    \/ "firstRow" \notin passed \/ firstRow = 0
    \/ "lastRow" \notin passed \/ lastRow = 0

\* The body of auditSitemapURLs up to the returned promise: the options are
\* checked, and a configuration error thrown in the async function rejects
\* its promise; otherwise the limiter and the CSV writer are created and the
\* source list is opened and piped into the parser.
CheckConfig ==
    /\ spc = "called"
    /\ IF ConfigError
         THEN /\ spc' = "rejected"
              /\ failure' = "config"
              /\ UNCHANGED io
         ELSE /\ spc' = "reading"
              /\ io' = {"csvWriter", "readStream"}
              /\ UNCHANGED failure
    /\ UNCHANGED <<batchVars, walkVars, contentVars, multiVars, groupVars, healthVars>>
    /\ UNCHANGED <<passed, concurrencyLimit, maxNon404Results, firstRow, lastRow, streamPos,
                   rowNumber, tasks, queue, activeCount, inflight, response,
                   results, count404, non404ErrorCount, shouldStop, written, summary>>

\* dataRowNumber >= firstRow && dataRowNumber <= lastRow, for rowNumber > 1
SelectedRowSkipNothing(n) == n >= firstRow /\ n <= lastRow

SelectedRow(n) == n > 1 /\ (n - 1) >= firstRow /\ (n - 1) <= lastRow

\* .on('data', row => ...): the stream hands over its next row.  The row at
\* stream position p (1 = header) is data row p - 1.
ReadRow ==
    /\ spc = "reading"
    /\ streamPos < NumDataRows + 1
    /\ streamPos' = streamPos + 1
    /\ IF shouldStop
         THEN UNCHANGED <<rowNumber, tasks, queue>>
         ELSE /\ rowNumber' = rowNumber + 1
              /\ IF SelectedRow(rowNumber')
                   THEN /\ tasks' = Append(tasks, streamPos' - 1)
                        /\ queue' = Append(queue, streamPos' - 1)
                   ELSE UNCHANGED <<tasks, queue>>
    /\ UNCHANGED <<io, failure>>
    /\ UNCHANGED <<batchVars, walkVars, contentVars, multiVars, groupVars, healthVars>>
    /\ UNCHANGED <<passed, concurrencyLimit, maxNon404Results, firstRow, lastRow,
                   activeCount, inflight, response, results, count404,
                   non404ErrorCount, shouldStop, written, summary, spc>>

\* .on('end', ...): the stream is exhausted; the handler awaits Promise.all(tasks).
StreamEnd ==
    /\ spc = "reading"
    /\ streamPos = NumDataRows + 1
    /\ spc' = "awaiting"
    /\ UNCHANGED <<io, failure>>
    /\ UNCHANGED <<batchVars, walkVars, contentVars, multiVars, groupVars, healthVars>>
    /\ UNCHANGED <<passed, concurrencyLimit, maxNon404Results, firstRow, lastRow, streamPos,
                   rowNumber, tasks, queue, activeCount, inflight, response,
                   results, count404, non404ErrorCount, shouldStop, written, summary>>

\* .on('error', err => reject(err)): the listener sits on the stream that
\* pipe() returned, the CSV parser, and sees the parser's errors.
StreamError ==
    /\ spc = "reading"
    /\ spc' = "rejected"
    /\ failure' = "parse"
    /\ UNCHANGED io
    /\ UNCHANGED <<batchVars, walkVars, contentVars, multiVars, groupVars, healthVars>>
    /\ UNCHANGED <<passed, concurrencyLimit, maxNon404Results, firstRow, lastRow, streamPos,
                   rowNumber, tasks, queue, activeCount, inflight, response,
                   results, count404, non404ErrorCount, shouldStop, written, summary>>

\* fs.createReadStream(inputCsv) fails to open or to read the source list.
\* The read stream has no 'error' listener (pipe() does not pass errors on),
\* so the event is thrown as an uncaught exception and the process ends
\* with the promise still pending.
SourceReadError ==
    /\ spc = "reading"
    /\ spc' = "crashed"
    /\ failure' = "read"
    /\ UNCHANGED io
    /\ UNCHANGED <<batchVars, walkVars, contentVars, multiVars, groupVars, healthVars>>
    /\ UNCHANGED <<passed, concurrencyLimit, maxNon404Results, firstRow, lastRow, streamPos,
                   rowNumber, tasks, queue, activeCount, inflight, response,
                   results, count404, non404ErrorCount, shouldStop, written, summary>>

\* A limiter built without a ceiling: tasks.push(checkUrl(url)).
SlotFreeUnlimited == TRUE

\* pLimit.default(concurrencyLimit): a queued task starts when fewer than
\* concurrencyLimit tasks are running.
SlotFree == activeCount < concurrencyLimit

\* A limiter that starts the task queued last.
DequeueLast(q) == [task |-> q[Len(q)], rest |-> SubSeq(q, 1, Len(q) - 1)]

\* The limiter's queue is first in, first out: the next task to start is the
\* one queued first.
Dequeue(q) == [task |-> Head(q), rest |-> Tail(q)]

\* checkUrl without its first line.
ReturnsBeforeRequestNever == FALSE

\* if (shouldStop) return;  at the top of checkUrl
ReturnsBeforeRequest == shouldStop

\* The limiter starts the task at the head of its queue, and checkUrl runs to
\* its first await: it returns at once when shouldStop is set (the task is
\* over, the slot is free again), otherwise it issues axios.get.
Dispatch ==
    /\ queue # <<>>
    /\ SlotFree
    /\ queue' = Dequeue(queue).rest
    /\ IF ReturnsBeforeRequest
         THEN UNCHANGED <<activeCount, inflight>>
         ELSE /\ activeCount' = activeCount + 1
              /\ inflight' = inflight \cup {Dequeue(queue).task}
    /\ UNCHANGED <<io, failure>>
    /\ UNCHANGED <<batchVars, walkVars, contentVars, multiVars, groupVars, healthVars>>
    /\ UNCHANGED <<passed, concurrencyLimit, maxNon404Results, firstRow, lastRow, streamPos,
                   rowNumber, tasks, response, results, count404, non404ErrorCount,
                   shouldStop, written, summary, spc>>

\* checkUrl without its test response.status !== 200.
RecordForEveryResponse(url, o) ==
    CASE o.kind \in {"response", "errorResponse"} ->
           <<[url |-> url, status |-> o.status, error |-> ""]>>
      [] o.kind = "noResponse" -> <<[url |-> url, status |-> 0, error |-> "No response received"]>>
      [] OTHER -> <<[url |-> url, status |-> 0, error |-> "error.message"]>>

\* The rows checkUrl pushes on results for outcome o of url (at most one).
\* A record without status has status 0, one without error has error "".
RecordFor(url, o) ==
    CASE o.kind = "response" /\ o.status = 200 -> <<>>
      [] o.kind = "response" -> <<[url |-> url, status |-> o.status, error |-> ""]>>
      [] o.kind = "errorResponse" -> <<[url |-> url, status |-> o.status, error |-> ""]>>
      [] o.kind = "noResponse" -> <<[url |-> url, status |-> 0, error |-> "No response received"]>>
      [] OTHER -> <<[url |-> url, status |-> 0, error |-> "error.message"]>>

\* checkUrl without the non404ErrorCount++ of the error.request branch.
Non404IncrementForgetsNoResponse(o) ==
    IF o.kind \in {"response", "errorResponse"}
      THEN (IF o.status \notin {200, 404} THEN 1 ELSE 0)
      ELSE (IF o.kind = "setupError" THEN 1 ELSE 0)

\* A count404++ that is lost when another check is in flight.
Count404IncrementLost(o) ==
    IF o.kind \in {"response", "errorResponse"} /\ o.status = 404 /\ Cardinality(inflight) = 1
      THEN 1 ELSE 0

\* count404++ happens for status 404, in the try and in the catch branch.
Count404Increment(o) ==
    IF o.kind \in {"response", "errorResponse"} /\ o.status = 404 THEN 1 ELSE 0

\* non404ErrorCount++ happens for every other non-200 status and for both
\* kinds of transport failure.
Non404Increment(o) ==
    IF o.kind \in {"response", "errorResponse"}
      THEN (IF o.status \notin {200, 404} THEN 1 ELSE 0)
      ELSE 1

\* A threshold test that lets one more error through.
ThresholdReachedLate(n) == maxNon404Results > 0 /\ n > maxNon404Results

\* maxNon404Results > 0 && non404ErrorCount >= maxNon404Results
ThresholdReached(n) == maxNon404Results > 0 /\ n >= maxNon404Results

\* The request of data row r ends with outcome o; checkUrl runs to its end
\* and the limiter frees the slot.
Complete(r, o) ==
    /\ r \in inflight
    /\ inflight' = inflight \ {r}
    /\ activeCount' = activeCount - 1
    /\ response' = [response EXCEPT ![r] = o]
    /\ results' = results \o RecordFor(r, o)
    /\ count404' = count404 + Count404Increment(o)
    /\ non404ErrorCount' = non404ErrorCount + Non404Increment(o)
    /\ shouldStop' = IF Non404Increment(o) > 0 /\ ThresholdReached(non404ErrorCount')
                       THEN TRUE
                       ELSE shouldStop
    /\ UNCHANGED <<io, failure>>
    /\ UNCHANGED <<batchVars, walkVars, contentVars, multiVars, groupVars, healthVars>>
    /\ UNCHANGED <<passed, concurrencyLimit, maxNon404Results, firstRow, lastRow, streamPos,
                   rowNumber, tasks, queue, written, summary, spc>>

\* An 'end' handler that does not wait for the tasks.
AllTasksSettledNotAwaited == TRUE

\* await Promise.all(tasks): every task handed to the limiter has run to its
\* end.
AllTasksSettled == queue = <<>> /\ activeCount = 0

\* Promise.all(tasks) is over; writeRecords(results) succeeds and the promise
\* resolves, or it fails inside the async 'end' handler, where nothing
\* settles the promise.
Finish(writeOk) ==
    /\ spc = "awaiting"
    /\ AllTasksSettled
    /\ IF writeOk
         THEN /\ written' = results
              /\ summary' = [count404 |-> count404, non404ErrorCount |-> non404ErrorCount]
              /\ spc' = "resolved"
              /\ UNCHANGED failure
         ELSE /\ UNCHANGED <<written, summary>>
              /\ spc' = "unsettled"
              /\ failure' = "write"
    /\ UNCHANGED io
    /\ UNCHANGED <<batchVars, walkVars, contentVars, multiVars, groupVars, healthVars>>
    /\ UNCHANGED <<passed, concurrencyLimit, maxNon404Results, firstRow, lastRow, streamPos,
                   rowNumber, tasks, queue, activeCount, inflight, response,
                   results, count404, non404ErrorCount, shouldStop>>

NextSweep ==
    \/ CheckConfig
    \/ ReadRow
    \/ StreamEnd
    \/ StreamError
    \/ SourceReadError
    \/ Dispatch
    \/ \E r \in DataRows, o \in Outcomes : Complete(r, o)
    \/ \E writeOk \in BOOLEAN : Finish(writeOk)

(***************************************************************************)
(* automateAudits: run()                                                   *)
(***************************************************************************)
Columns == {"Number", "404s", "Non-404 Errors"}

\* The 404s and Non-404 Errors cells a range comes with: each empty,
\* whitespace only, or a count.
InitCells == { <<"", "">>, <<" ", " ">>, <<"", "4">>, <<"4", "">>, <<"4", "7">> }

\* count404 and non404ErrorCount values an audit resolves with
AuditCounts == { <<0, 0>>, <<0, 1>>, <<12, 3>> }

Digits == <<"0", "1", "2", "3", "4", "5", "6", "7", "8", "9">>

\* String(n) for the counts an audit returns
RECURSIVE String(_)
String(n) == IF n < 10 THEN Digits[n + 1] ELSE String(n \div 10) \o Digits[(n % 10) + 1]

\* s.trim(), on the cells of the model
Trim(s) == IF s \in {" ", "  "} THEN "" ELSE s

\* JavaScript truthiness of a string: every string but the empty one
Truthy(s) == s # ""

\* row['Number'].padStart(2, '0')
PadStart2(s) == IF \E d \in 1..10 : s = Digits[d] THEN "0" \o s ELSE s

\* buildOutputFilename(row); State and Type are fixed in the model
BuildOutputFilename(row) ==
    "csv_output/" \o PadStart2(row["Number"]) \o "_al_elections_counties_non_200_responses.csv"

InitRow(i, a, b) ==
    [c \in Columns |-> CASE c = "Number" -> String(i) [] c = "404s" -> a [] OTHER -> b]

InitStores ==
    UNION { { [i \in 1..n |-> InitRow(i, f[i][1], f[i][2])] :
                f \in [1..n -> InitCells] } : n \in 0..MaxRanges }

NoRun == [ended |-> "none", auditResult |-> <<>>, auditCalls |-> <<>>]

\* The column orders election_groupings.csv comes in.
HeaderOrders == { <<"Number", "404s", "Non-404 Errors">>,
                  <<"404s", "Non-404 Errors", "Number">> }

\* Object.keys on a row with reversed key order.
ObjectKeysReversed(h) == [i \in 1..Len(h) |-> h[Len(h) + 1 - i]]

\* Object.keys(rows[0]) of a row csv-parser built from header line h: the
\* keys in the order they were inserted, which is the order of the columns
\* (no column name is an integer index).
ObjectKeys(h) == h

Range(f) == { f[i] : i \in DOMAIN f }

InitBatch ==
    /\ store \in InitStores
    /\ storeHeader \in HeaderOrders
    /\ startHeader = storeHeader
    /\ rows = <<>>
    /\ headers = <<>>
    /\ idx = 1
    /\ auditCalls = <<>>
    /\ auditResult = <<>>
    /\ storeWrites = 0
    /\ startStore = store
    /\ prevRun = NoRun
    /\ runNo = 1
    /\ bpc = "start"

\* A reading of the store that takes the header of a store without rows to
\* be empty and goes on to the loop.
ReadStoreGoesOnWithoutRows(readOk) ==
    /\ bpc = "start"
    /\ IF readOk
         THEN /\ rows' = store
              /\ headers' = IF Len(store) > 0 THEN ObjectKeys(storeHeader) ELSE <<>>
              /\ auditResult' = [i \in 1..Len(store) |-> "none"]
              /\ bpc' = "loop"
         ELSE /\ UNCHANGED <<rows, headers, auditResult>>
              /\ bpc' = "fatal"
    /\ UNCHANGED <<store, idx, auditCalls, storeWrites, startStore, prevRun, runNo>>
    /\ UNCHANGED <<storeHeader, startHeader>>
    /\ UNCHANGED <<sweepVars, walkVars, contentVars, multiVars, groupVars, healthVars>>

\* const rows = await readCsv(GROUPINGS_FILE); const headers = Object.keys(rows[0]).
\* A read error, or a store without rows (rows[0] is undefined), ends run()
\* in the catch handler: process.exit(1).
ReadStore(readOk) ==
    /\ bpc = "start"
    /\ IF readOk /\ Len(store) > 0
         THEN /\ rows' = store
              /\ headers' = ObjectKeys(storeHeader)
              /\ auditResult' = [i \in 1..Len(store) |-> "none"]
              /\ bpc' = "loop"
         ELSE /\ UNCHANGED <<rows, headers, auditResult>>
              /\ bpc' = "fatal"
    /\ UNCHANGED <<store, idx, auditCalls, storeWrites, startStore, prevRun, runNo>>
    /\ UNCHANGED <<storeHeader, startHeader>>
    /\ UNCHANGED <<sweepVars, walkVars, contentVars, multiVars, groupVars, healthVars>>

\* if (row['404s'] && row['404s'].trim() !== '') continue;
AlreadyAudited(row) == Truthy(row["404s"]) /\ Trim(row["404s"]) # ""

\* The loop passes over a row that already has results.
SkipRange ==
    /\ bpc = "loop"
    /\ idx <= Len(rows)
    /\ AlreadyAudited(rows[idx])
    /\ idx' = idx + 1
    /\ auditResult' = [auditResult EXCEPT ![idx] = "skipped"]
    /\ UNCHANGED <<store, rows, headers, auditCalls, storeWrites, startStore,
                   prevRun, runNo, bpc>>
    /\ UNCHANGED <<storeHeader, startHeader>>
    /\ UNCHANGED <<sweepVars, walkVars, contentVars, multiVars, groupVars, healthVars>>

\* The loop reaches a pending row and calls auditSitemapURLs for it.
StartAudit ==
    /\ bpc = "loop"
    /\ idx <= Len(rows)
    /\ ~AlreadyAudited(rows[idx])
    /\ auditCalls' = Append(auditCalls,
                            [range |-> idx, outputCsv |-> BuildOutputFilename(rows[idx])])
    /\ bpc' = "auditing"
    /\ UNCHANGED <<store, rows, headers, idx, auditResult, storeWrites, startStore,
                   prevRun, runNo>>
    /\ UNCHANGED <<storeHeader, startHeader>>
    /\ UNCHANGED <<sweepVars, walkVars, contentVars, multiVars, groupVars, healthVars>>

\* An orchestrator that puts every summary into the first row.
AuditResolvesIntoFirstRow(c404, cNon) ==
    /\ bpc = "auditing"
    /\ rows' = [rows EXCEPT ![1] = [@ EXCEPT !["404s"] = String(c404),
                                             !["Non-404 Errors"] = String(cNon)]]
    /\ auditResult' = [auditResult EXCEPT ![idx] = "resolved"]
    /\ idx' = idx + 1
    /\ bpc' = "loop"
    /\ UNCHANGED <<store, headers, auditCalls, storeWrites, startStore, prevRun, runNo>>
    /\ UNCHANGED <<storeHeader, startHeader>>
    /\ UNCHANGED <<sweepVars, walkVars, contentVars, multiVars, groupVars, healthVars>>

\* The audit resolved: row['404s'] = String(count404), and so on.
AuditResolves(c404, cNon) ==
    /\ bpc = "auditing"
    /\ rows' = [rows EXCEPT ![idx] = [@ EXCEPT !["404s"] = String(c404),
                                               !["Non-404 Errors"] = String(cNon)]]
    /\ auditResult' = [auditResult EXCEPT ![idx] = "resolved"]
    /\ idx' = idx + 1
    /\ bpc' = "loop"
    /\ UNCHANGED <<store, headers, auditCalls, storeWrites, startStore, prevRun, runNo>>
    /\ UNCHANGED <<storeHeader, startHeader>>
    /\ UNCHANGED <<sweepVars, walkVars, contentVars, multiVars, groupVars, healthVars>>

\* The audit rejected (configuration error, parser error): the catch block
\* logs it and the loop goes on.
AuditRejects ==
    /\ bpc = "auditing"
    /\ auditResult' = [auditResult EXCEPT ![idx] = "rejected"]
    /\ idx' = idx + 1
    /\ bpc' = "loop"
    /\ UNCHANGED <<store, rows, headers, auditCalls, storeWrites, startStore,
                   prevRun, runNo>>
    /\ UNCHANGED <<storeHeader, startHeader>>
    /\ UNCHANGED <<sweepVars, walkVars, contentVars, multiVars, groupVars, healthVars>>

\* The audit's promise never settles (writeRecords failed inside the
\* auditor's 'end' handler): the await never returns and the process ends on
\* the unhandled rejection, or when nothing is left to run.
AuditNeverSettles ==
    /\ bpc = "auditing"
    /\ auditResult' = [auditResult EXCEPT ![idx] = "unsettled"]
    /\ bpc' = "aborted"
    /\ UNCHANGED <<store, rows, headers, idx, auditCalls, storeWrites, startStore,
                   prevRun, runNo>>
    /\ UNCHANGED <<storeHeader, startHeader>>
    /\ UNCHANGED <<sweepVars, walkVars, contentVars, multiVars, groupVars, healthVars>>

\* A writer whose header leaves out the count columns.
WrittenRowWithoutCounts(row) ==
    [c \in Range(headers) |-> IF c \in {"404s", "Non-404 Errors"} \/ c \notin DOMAIN row
                         THEN "" ELSE row[c]]

\* csvWriter with header: headers writes, of each record, the header's
\* columns; a column the header names and the record lacks is written empty.
WrittenRow(row) ==
    [c \in Range(headers) |-> IF c \in DOMAIN row THEN row[c] ELSE ""]

\* A write that does not wait for the loop.
LoopOverAtAnyTime == TRUE

\* for (const row of rows) has gone through every row
LoopOver == idx > Len(rows)

\* After the loop: await csvWriter.writeRecords(rows).  A write error ends
\* run() in the catch handler.
WriteStore(writeOk) ==
    /\ bpc = "loop"
    /\ LoopOver
    /\ IF writeOk
         THEN /\ store' = [i \in 1..Len(rows) |-> WrittenRow(rows[i])]
              /\ storeHeader' = headers
              /\ storeWrites' = storeWrites + 1
              /\ bpc' = "done"
         ELSE /\ UNCHANGED <<store, storeHeader, storeWrites>>
              /\ bpc' = "fatal"
    /\ UNCHANGED <<rows, headers, idx, auditCalls, auditResult, startStore,
                   prevRun, runNo>>
    /\ UNCHANGED startHeader
    /\ UNCHANGED <<sweepVars, walkVars, contentVars, multiVars, groupVars, healthVars>>

\* The source list cannot be read: the uncaught 'error' event of the
\* auditor's read stream ends the process in the middle of the await.
AuditCrashes ==
    /\ bpc = "auditing"
    /\ auditResult' = [auditResult EXCEPT ![idx] = "crashed"]
    /\ bpc' = "aborted"
    /\ UNCHANGED <<store, rows, headers, idx, auditCalls, storeWrites, startStore,
                   prevRun, runNo>>
    /\ UNCHANGED <<storeHeader, startHeader>>
    /\ UNCHANGED <<sweepVars, walkVars, contentVars, multiVars, groupVars, healthVars>>

RunOver == bpc \in {"done", "fatal", "aborted"}

\* The orchestrator is started again on the store the last run left.
RunAgain ==
    /\ RunOver
    /\ runNo < MaxRuns
    /\ prevRun' = [ended |-> bpc, auditResult |-> auditResult, auditCalls |-> auditCalls]
    /\ runNo' = runNo + 1
    /\ rows' = <<>>
    /\ headers' = <<>>
    /\ idx' = 1
    /\ auditCalls' = <<>>
    /\ auditResult' = <<>>
    /\ storeWrites' = 0
    /\ startStore' = store
    /\ bpc' = "start"
    /\ UNCHANGED store
    /\ startHeader' = storeHeader
    /\ UNCHANGED storeHeader
    /\ UNCHANGED <<sweepVars, walkVars, contentVars, multiVars, groupVars, healthVars>>

NextBatch ==
    \/ \E readOk \in BOOLEAN : ReadStore(readOk)
    \/ SkipRange
    \/ StartAudit
    \/ \E c \in AuditCounts : AuditResolves(c[1], c[2])
    \/ AuditRejects
    \/ AuditNeverSettles
    \/ AuditCrashes
    \/ \E writeOk \in BOOLEAN : WriteStore(writeOk)
    \/ RunAgain

(***************************************************************************)
(* SitemapValidator: validateUrl, validateContent, getResults              *)
(***************************************************************************)
\* const maxChildSitemaps = options.depth === 0 ? ... : 10
MaxChildSitemaps == 10

SitemapUrls == {"https://a/sitemap.xml", "https://a/s/1.xml", "https://a/s/2.xml"}

\* An option that holds a number is {n}; undefined and NaN, which compare
\* false with everything and equal nothing, are {}.
Lt(a, b) == \E x \in a, y \in b : x < y

IsZero(a) == a = {0}

PlusOne(a) == {x + 1 : x \in a}

\* The options argument as a caller supplies it.  validateMultipleSitemaps
\* passes { recursive } alone; validateGoodPartyProblemSitemaps passes
\* nothing; a caller of the class may pass all three.
SuppliedOptions ==
    { [given |-> FALSE, recursive |-> FALSE, depth |-> {}, maxDepth |-> {}] }
    \cup { [given |-> TRUE, recursive |-> r, depth |-> {}, maxDepth |-> {}] :
             r \in BOOLEAN }
    \cup { [given |-> TRUE, recursive |-> TRUE, depth |-> {0}, maxDepth |-> {m}] :
             m \in 1..MaxDepthTried }

\* options = { recursive: false, depth: 0, maxDepth: 3 }: the default
\* applies only when no options argument is passed at all.
WithDefaults(o) ==
    IF o.given
      THEN [recursive |-> o.recursive, depth |-> o.depth, maxDepth |-> o.maxDepth]
      ELSE [recursive |-> FALSE, depth |-> {0}, maxDepth |-> {3}]

\* <loc> values of the entries of a document: a URL, nothing, or no URL
ElevenLocs ==
    [i \in 1..(MaxChildSitemaps + 1) |->
        IF i % 2 = 1 THEN "https://a/s/1.xml" ELSE "https://a/s/2.xml"]

IndexLocs == { <<>>,
               <<"https://a/s/1.xml", "https://a/s/2.xml">>,
               <<"https://a/s/2.xml", "", "not a url">>,
               ElevenLocs }

UrlsetLocs == { <<>>,
                <<"https://a/p">>,
                <<"https://a/p", "https://a/p">>,
                <<"", "not a url">> }

\* const SITEMAP_NAMESPACE = 'http://www.sitemaps.org/schemas/sitemap/0.9'
SITEMAP_NAMESPACE == "http://www.sitemaps.org/schemas/sitemap/0.9"

\* The xmlns attribute of a root element: absent (""), the sitemap protocol
\* namespace, another namespace under sitemaps.org, a namespace elsewhere.
Xmlns == { "", SITEMAP_NAMESPACE, "http://www.sitemaps.org/schemas/sitemap/0.8",
           "http://www.google.com/schemas/sitemap/0.84" }

\* xmlns.includes('sitemaps.org')
IncludesSitemapsOrg(x) ==
    x \in { SITEMAP_NAMESPACE, "http://www.sitemaps.org/schemas/sitemap/0.8" }

\* the negation of  !root['@_xmlns'] || !root['@_xmlns'].includes('sitemaps.org')
NamespaceAccepted(x) == x # "" /\ IncludesSitemapsOrg(x)

\* What fetch(url) and response.text() can give.
FetchOutcomes ==
    { [kind |-> k, xmlns |-> "", locs |-> <<>>] :
        k \in {"throws", "notOk", "invalidXml", "otherRoot"} }
    \cup { [kind |-> "sitemapindex", xmlns |-> x, locs |-> l] :
             x \in Xmlns, l \in IndexLocs }
    \cup { [kind |-> "urlset", xmlns |-> x, locs |-> l] :
             x \in Xmlns, l \in UrlsetLocs }

\* const MAX_URLS_PER_SITEMAP = 50000
MAX_URLS_PER_SITEMAP == 50000

\* const VALID_CHANGEFREQ = [...]
VALID_CHANGEFREQ == {"always", "hourly", "daily", "weekly", "monthly", "yearly", "never"}

\* a location with a space in its path, and one with a bare ampersand
SpaceLoc == "https://a/x y"

AmpLoc == "https://a/p?x=1&y=2"

\* a location whose only ampersand is escaped, and one with an escaped
\* ampersand followed by a bare one
EscapedAmpLoc == "https://a/p?x=1&amp;y=2"

MixedAmpLoc == "https://a/p?x=1&amp;y=2&z=3"

\* isValidUrl(url): new URL(url) parses it and the protocol is http: or
\* https:.  A space or an ampersand after the host does not stop the parse.
IsValidUrl(loc) ==
    loc \in SitemapUrls
             \cup {"https://a/p", "https://a/q", SpaceLoc, AmpLoc, EscapedAmpLoc, MixedAmpLoc}

\* loc.includes(' ')
IncludesSpace(loc) == loc = SpaceLoc

\* loc.includes('&')
IncludesAmpersand(loc) == loc \in {AmpLoc, EscapedAmpLoc, MixedAmpLoc}

\* loc.includes('&amp;')
IncludesEscapedAmpersand(loc) == loc \in {EscapedAmpLoc, MixedAmpLoc}

\* loc.includes('&') && !loc.includes('&amp;')
UnescapedAmpersand(loc) == IncludesAmpersand(loc) /\ ~IncludesEscapedAmpersand(loc)

\* isValidDate(date): one of the four W3C patterns matches and new Date(date)
\* is a date.  "2024-13-45" matches the first pattern and is no date.
IsValidDate(date) == date \in {"2024-01-15", "2024-01-15T10:00:00Z"}

\* parseFloat of a <priority> text, in tenths; NaN is {}
ParseFloat(p) ==
    CASE p = "0.5" -> {5}
      [] p = "1.0" -> {10}
      [] p = "1.5" -> {15}
      [] p = "-0.3" -> {-3}
      [] OTHER -> {}

\* A priority test that forgets the range: isNaN(priority) alone.
InvalidPriorityNaNOnly(p) == ParseFloat(p) = {}

\* isNaN(priority) || priority < 0 || priority > 1
InvalidPriority(p) ==
    \/ ParseFloat(p) = {}
    \/ \E x \in ParseFloat(p) : x < 0 \/ x > 10

\* getResults() with valid: true, whatever this.errors holds.
GetResultsAlwaysValid(errors, warnings, locs) ==
    [props |-> {"valid", "errors", "warnings"},
     valid |-> TRUE,
     errors |-> errors,
     warnings |-> warnings,
     childSitemaps |-> <<>>,
     childResults |-> <<>>]

\* getResults(): { valid, errors, warnings } of this validator.  The third
\* argument is the list of <loc> values validateSitemapIndex went through,
\* of which getResults returns nothing.
GetResults(errors, warnings, locs) ==
    [props |-> {"valid", "errors", "warnings"},
     valid |-> errors = <<>>,
     errors |-> errors,
     warnings |-> warnings,
     childSitemaps |-> <<>>,
     childResults |-> <<>>]

RECURSIVE IndexEntryErrors(_, _)
IndexEntryErrors(locs, i) ==
    IF i > Len(locs) THEN <<>>
    ELSE (IF locs[i] = ""
            THEN <<"Sitemap " \o String(i) \o ": Missing required <loc> element">>
            ELSE IF ~IsValidUrl(locs[i])
                   THEN <<"Sitemap " \o String(i) \o ": Invalid URL: " \o locs[i]>>
                   ELSE <<>>)
         \o IndexEntryErrors(locs, i + 1)

\* validateSitemapIndex(sitemapindex, source)
ValidateSitemapIndex(doc) ==
    GetResults((IF NamespaceAccepted(doc.xmlns)
                  THEN <<>> ELSE <<"Missing or invalid xmlns namespace">>)
                 \o IndexEntryErrors(doc.locs, 1),
               IF Len(doc.locs) = 0 THEN <<"Sitemap index contains no sitemaps">> ELSE <<>>,
               doc.locs)

\* The error pushes of the forEach callback of validateUrlset, entry by
\* entry.  An element that is absent is "".  The callback returns after the
\* missing-location error.
RECURSIVE UrlEntryErrors(_, _)
UrlEntryErrors(url, i) ==
    IF i > Len(url) THEN <<>>
    ELSE (IF url[i].loc = ""
            THEN <<"URL " \o String(i) \o ": Missing required <loc> element">>
            ELSE (IF ~IsValidUrl(url[i].loc)
                    THEN <<"URL " \o String(i) \o ": Invalid URL format: " \o url[i].loc>>
                    ELSE <<>>)
                 \o (IF IncludesSpace(url[i].loc)
                       THEN <<"URL " \o String(i) \o ": Contains spaces (should be encoded): "
                                \o url[i].loc>>
                       ELSE <<>>)
                 \o (IF UnescapedAmpersand(url[i].loc)
                       THEN <<"URL " \o String(i) \o ": Unescaped ampersand: " \o url[i].loc>>
                       ELSE <<>>))
         \o UrlEntryErrors(url, i + 1)

\* The warning pushes of the same callback.
RECURSIVE UrlEntryWarnings(_, _)
UrlEntryWarnings(url, i) ==
    IF i > Len(url) THEN <<>>
    ELSE (IF url[i].loc = ""
            THEN <<>>
            ELSE (IF \E j \in 1..(i - 1) : url[j].loc = url[i].loc
                    THEN <<"URL " \o String(i) \o ": Duplicate URL: " \o url[i].loc>>
                    ELSE <<>>)
                 \o (IF url[i].lastmod # "" /\ ~IsValidDate(url[i].lastmod)
                       THEN <<"URL " \o String(i) \o ": Invalid lastmod date: "
                                \o url[i].lastmod>>
                       ELSE <<>>)
                 \o (IF url[i].changefreq # "" /\ url[i].changefreq \notin VALID_CHANGEFREQ
                       THEN <<"URL " \o String(i) \o ": Invalid changefreq: "
                                \o url[i].changefreq>>
                       ELSE <<>>)
                 \o (IF url[i].priority # "" /\ InvalidPriority(url[i].priority)
                       THEN <<"URL " \o String(i) \o ": Invalid priority: "
                                \o url[i].priority>>
                       ELSE <<>>))
         \o UrlEntryWarnings(url, i + 1)

\* validateUrlset(urlset, source).  urlset.url holds the entries that are
\* looked at one by one; urlset.pad counts further entries of the document,
\* each with a location of its own and nothing to report, so that
\* urls.length is Len(urlset.url) + urlset.pad.
ValidateUrlset(urlset) ==
    GetResults((IF NamespaceAccepted(urlset.xmlns)
                  THEN <<>> ELSE <<"Missing or invalid xmlns namespace">>)
                 \o (IF Len(urlset.url) + urlset.pad > MAX_URLS_PER_SITEMAP
                       THEN <<"Too many URLs">> ELSE <<>>)
                 \o UrlEntryErrors(urlset.url, 1),
               (IF Len(urlset.url) + urlset.pad = 0
                  THEN <<"Sitemap contains no URLs">> ELSE <<>>)
                 \o UrlEntryWarnings(urlset.url, 1),
               <<>>)

\* a <url> entry with a <loc> and no other element
LocEntry(loc) == [loc |-> loc, lastmod |-> "", changefreq |-> "", priority |-> ""]

\* parsed.urlset of a document the walker fetched
ParsedUrlset(doc) ==
    [xmlns |-> doc.xmlns, url |-> [i \in 1..Len(doc.locs) |-> LocEntry(doc.locs[i])],
     pad |-> 0]

\* validateContent(content, source, options)
ValidateContent(doc) ==
    CASE doc.kind = "invalidXml" -> GetResults(<<"Invalid XML">>, <<>>, <<>>)
      [] doc.kind = "sitemapindex" -> ValidateSitemapIndex(doc)
      [] doc.kind = "urlset" -> ValidateUrlset(ParsedUrlset(doc))
      [] OTHER -> GetResults(<<"Root element must be either <urlset> or <sitemapindex>">>,
                             <<>>, <<>>)

\* validateUrl without its try/catch: a fetch that throws leaves the call
\* without a result.
FetchedResultsUncaught(outcome) ==
    CASE outcome.kind = "throws" ->
           [props |-> {}, valid |-> FALSE, errors |-> <<>>, warnings |-> <<>>,
            childSitemaps |-> <<>>, childResults |-> <<>>]
      [] outcome.kind = "notOk" -> GetResults(<<"HTTP status">>, <<>>, <<>>)
      [] OTHER -> ValidateContent(outcome)

\* What validateUrl has in hand after fetch(url) and validateContent: the
\* catch block turns a thrown error into a result, a non-OK response returns
\* at once, any other response has its text validated.
FetchedResults(outcome) ==
    CASE outcome.kind = "throws" -> GetResults(<<"Failed to fetch URL">>, <<>>, <<>>)
      [] outcome.kind = "notOk" -> GetResults(<<"HTTP status">>, <<>>, <<>>)
      [] OTHER -> ValidateContent(outcome)

\* What fs.readFile(filePath) can give validateFile: an error or a content.
ReadOutcomes == { o \in FetchOutcomes : o.kind # "notOk" }

\* validateFile(filePath): the catch block turns a read error into a result.
ReadResults(outcome) ==
    IF outcome.kind = "throws"
      THEN GetResults(<<"Failed to read file">>, <<>>, <<>>)
      ELSE ValidateContent(outcome)

\* options.recursive && results.childSitemaps &&
\* results.childSitemaps.length > 0 && options.depth < options.maxDepth
WalksChildren(options, res) ==
    /\ options.recursive
    /\ "childSitemaps" \in res.props
    /\ Len(res.childSitemaps) > 0
    /\ Lt(options.depth, options.maxDepth)

\* results.childSitemaps.slice(0, maxChildSitemaps)
ChildSitemapsToProcess(options, res) ==
    SubSeq(res.childSitemaps, 1,
           IF IsZero(options.depth)
             THEN Len(res.childSitemaps)
             ELSE Min(MaxChildSitemaps, Len(res.childSitemaps)))

NewFrame(url, supplied, options) ==
    [url |-> url, supplied |-> supplied, options |-> options, pc |-> "fetching",
     doc |-> [kind |-> "none", xmlns |-> "", locs |-> <<>>],
     results |-> GetResults(<<>>, <<>>, <<>>), toProcess |-> <<>>, ci |-> 0]

\* { ...options, depth: options.depth + 1 }
ChildOptions(options) == [options EXCEPT !.depth = PlusOne(options.depth)]

ChildSupplied(options) ==
    [given |-> TRUE, recursive |-> options.recursive,
     depth |-> PlusOne(options.depth), maxDepth |-> options.maxDepth]

InitWalk ==
    /\ stack = <<>>
    /\ fetches = <<>>
    /\ done = <<>>
    /\ walkResults = <<>>
    /\ calls = 0

\* A caller invokes validateUrl(url, options) on the validator; the call runs
\* to its await fetch(url).
CallValidateUrl(url, supplied) ==
    /\ stack = <<>>
    /\ calls < MaxCalls
    /\ calls' = calls + 1
    /\ stack' = <<NewFrame(url, supplied, WithDefaults(supplied))>>
    /\ fetches' = Append(fetches, [url |-> url, depth |-> WithDefaults(supplied).depth,
                                   level |-> 1])
    /\ UNCHANGED <<done, walkResults>>
    /\ UNCHANGED <<sweepVars, batchVars, contentVars, multiVars, groupVars, healthVars>>

\* The innermost call's fetch is over.  A thrown error and a non-OK response
\* give an errors-only result; otherwise the content is validated and, for a
\* result with child sitemaps to walk, the loop over the children starts with
\* the first child's validateUrl.
FetchReturns(outcome) ==
    /\ stack # <<>>
    /\ stack[Len(stack)].pc = "fetching"
    /\ LET n == Len(stack)
           f == stack[n]
           res == FetchedResults(outcome)
           walk == outcome.kind \notin {"throws", "notOk"} /\ WalksChildren(f.options, res)
           todo == ChildSitemapsToProcess(f.options, res)
       IN  IF walk
             THEN /\ stack' = Append(
                        [stack EXCEPT ![n] =
                            [f EXCEPT !.doc = outcome,
                                      !.results = [res EXCEPT !.props = @ \cup {"childResults"}],
                                      !.toProcess = todo,
                                      !.ci = 1,
                                      !.pc = "looping"]],
                        NewFrame(todo[1], ChildSupplied(f.options), ChildOptions(f.options)))
                  /\ fetches' = Append(fetches,
                                       [url |-> todo[1],
                                        depth |-> ChildOptions(f.options).depth,
                                        level |-> n + 1])
             ELSE /\ stack' = [stack EXCEPT ![n] =
                                 [f EXCEPT !.doc = outcome, !.results = res,
                                           !.pc = "returning"]]
                  /\ UNCHANGED fetches
    /\ UNCHANGED <<done, walkResults, calls>>
    /\ UNCHANGED <<sweepVars, batchVars, contentVars, multiVars, groupVars, healthVars>>

\* m with m[k] set to v
Put(m, k, v) == [x \in DOMAIN m \cup {k} |-> IF x = k THEN v ELSE m[x]]

\* The innermost call, instead of returning, requests its own URL once more:
\* a walk of an index that lists itself with nothing to bound the descent.
ReturnResultsWalkingOn ==
    /\ stack # <<>>
    /\ stack[Len(stack)].pc = "returning"
    /\ stack' = [stack EXCEPT ![Len(stack)] = NewFrame(@.url, @.supplied, @.options)]
    /\ UNCHANGED <<fetches, done, walkResults, calls>>
    /\ UNCHANGED <<sweepVars, batchVars, contentVars, multiVars, groupVars, healthVars>>

\* The innermost call returns its results.  A top-level call hands them to
\* its caller.  A child's results go into the parent's childResults under the
\* child's URL, and the parent's loop goes on: to the next child's
\* validateUrl or, after the last, to the truncation warning and the return.
ReturnResults ==
    /\ stack # <<>>
    /\ stack[Len(stack)].pc = "returning"
    /\ LET n == Len(stack)
           f == stack[n]
           entry == [op |-> "validateUrl", url |-> f.url, supplied |-> f.supplied,
                     options |-> f.options, level |-> n, doc |-> f.doc,
                     result |-> f.results]
       IN  /\ done' = Append(done, entry)
           /\ IF n = 1
                THEN /\ stack' = <<>>
                     /\ walkResults' = Append(walkResults, entry)
                     /\ UNCHANGED fetches
                ELSE LET p == stack[n - 1]
                         got == [p.results EXCEPT
                                   !.childResults = Put(@, f.url, f.results)]
                     IN  /\ UNCHANGED walkResults
                         /\ IF p.ci < Len(p.toProcess)
                              THEN /\ stack' = Append(
                                         [SubSeq(stack, 1, n - 1) EXCEPT ![n - 1] =
                                             [p EXCEPT !.results = got, !.ci = p.ci + 1]],
                                         NewFrame(p.toProcess[p.ci + 1],
                                                  ChildSupplied(p.options),
                                                  ChildOptions(p.options)))
                                   /\ fetches' = Append(fetches,
                                         [url |-> p.toProcess[p.ci + 1],
                                          depth |-> ChildOptions(p.options).depth,
                                          level |-> n])
                              ELSE /\ stack' =
                                         [SubSeq(stack, 1, n - 1) EXCEPT ![n - 1] =
                                             [p EXCEPT
                                                !.results =
                                                   IF Len(p.toProcess) < Len(got.childSitemaps)
                                                     THEN [got EXCEPT !.warnings =
                                                             Append(@, "Only validated some child sitemaps")]
                                                     ELSE got,
                                                !.pc = "returning"]]
                                   /\ UNCHANGED fetches
    /\ UNCHANGED calls
    /\ UNCHANGED <<sweepVars, batchVars, contentVars, multiVars, groupVars, healthVars>>

\* The server never answers the innermost call's fetch(url).  The call passes
\* fetch no timeout and no abort signal, so nothing ends the await.
FetchNeverAnswered ==
    /\ stack # <<>>
    /\ stack[Len(stack)].pc = "fetching"
    /\ stack' = [stack EXCEPT ![Len(stack)] = [@ EXCEPT !.pc = "unanswered"]]
    /\ UNCHANGED <<fetches, done, walkResults, calls>>
    /\ UNCHANGED <<sweepVars, batchVars, contentVars, multiVars, groupVars, healthVars>>

FilePath == "public/sitemap.xml"

NoOptions == [given |-> FALSE, recursive |-> FALSE, depth |-> {}, maxDepth |-> {}]

\* A caller invokes validateFile(filePath): the file is read and its content
\* validated, or the read error recorded; the results go to the caller.
ValidateFile(outcome) ==
    /\ stack = <<>>
    /\ calls < MaxCalls
    /\ calls' = calls + 1
    /\ LET entry == [op |-> "validateFile", url |-> FilePath, supplied |-> NoOptions,
                     options |-> [recursive |-> FALSE, depth |-> {}, maxDepth |-> {}],
                     level |-> 1, doc |-> outcome, result |-> ReadResults(outcome)]
       IN  /\ done' = Append(done, entry)
           /\ walkResults' = Append(walkResults, entry)
    /\ UNCHANGED <<stack, fetches>>
    /\ UNCHANGED <<sweepVars, batchVars, contentVars, multiVars, groupVars, healthVars>>

\* The <url> entries of the model: a location alone, one optional element
\* on top of a good location, and entries with several findings.
UrlEntries ==
    { LocEntry(l) : l \in {"", "https://a/p", "not a url", SpaceLoc, AmpLoc,
                            EscapedAmpLoc, MixedAmpLoc} }
    \cup { [LocEntry("https://a/p") EXCEPT !.lastmod = d] :
             d \in {"2024-01-15", "2024-13-45", "yesterday"} }
    \cup { [LocEntry("https://a/p") EXCEPT !.changefreq = c] : c \in {"daily", "sometimes"} }
    \cup { [LocEntry("https://a/p") EXCEPT !.priority = q] :
             q \in {"0.5", "1.5", "abc", "-0.3"} }
    \cup { [loc |-> "https://a/q", lastmod |-> "yesterday", changefreq |-> "sometimes",
            priority |-> "abc"],
           [loc |-> "", lastmod |-> "yesterday", changefreq |-> "", priority |-> "1.5"] }

\* Entries beyond those looked at one by one: none, or as many as bring the
\* document to the ceiling of 50,000 and past it.
Pads == {0, MAX_URLS_PER_SITEMAP - MaxEntries, MAX_URLS_PER_SITEMAP}

UrlsetDocs ==
    { [xmlns |-> x, url |-> u, pad |-> k] :
        x \in Xmlns,
        u \in UNION { [1..n -> UrlEntries] : n \in 0..MaxEntries },
        k \in Pads }

InitContent ==
    /\ content \in UrlsetDocs
    /\ contentResults = <<>>

\* validateContent(content, source) on a well-formed document whose root is
\* <urlset>: it returns what validateUrlset returns.
ValidateContentOfUrlset ==
    /\ contentResults = <<>>
    /\ contentResults' = <<ValidateUrlset(content)>>
    /\ UNCHANGED content
    /\ UNCHANGED <<sweepVars, batchVars, walkVars, multiVars, groupVars, healthVars>>

NextContent == ValidateContentOfUrlset

NextWalk ==
    \/ \E url \in SitemapUrls, supplied \in SuppliedOptions : CallValidateUrl(url, supplied)
    \/ \E outcome \in FetchOutcomes : FetchReturns(outcome)
    \/ FetchNeverAnswered
    \/ ReturnResults
    \/ \E outcome \in ReadOutcomes : ValidateFile(outcome)

(***************************************************************************)
(* validateMultipleSitemaps                                                *)
(***************************************************************************)
MaxTargets == 2

\* the targets a caller may list: a URL and a file on disk
Targets == {"https://a/sitemap.xml", FilePath}

Paths == UNION { [1..n -> Targets] : n \in 0..MaxTargets }

\* pathOrUrl.startsWith('http://') || pathOrUrl.startsWith('https://')
IsUrl(pathOrUrl) == pathOrUrl = "https://a/sitemap.xml"

\* What the fetch or the read of one target can give: a failure, or a
\* document with or without its namespace and with at most one entry.
TargetOutcomes(pathOrUrl) ==
    { o \in (IF IsUrl(pathOrUrl) THEN FetchOutcomes ELSE ReadOutcomes) :
        /\ o.xmlns \in {"", SITEMAP_NAMESPACE}
        /\ Len(o.locs) <= 1 }

\* Emptying the validator's two arrays where they are
\* (this.errors.length = 0): the references stay.
ResetInPlace(h, v) ==
    [heap |-> [h EXCEPT ![v.errors] = <<>>, ![v.warnings] = <<>>],
     validator |-> v]

\* this.errors = []; this.warnings = []  : two new arrays, and the validator
\* refers to them from now on.
Reset(h, v) ==
    [heap |-> h \o << <<>>, <<>> >>,
     validator |-> [errors |-> Len(h) + 1, warnings |-> Len(h) + 2]]

\* new SitemapValidator(); results = {}
InitMulti ==
    /\ paths \in Paths
    /\ recursiveOption \in BOOLEAN
    /\ heap = << <<>>, <<>> >>
    /\ validator = [errors |-> 1, warnings |-> 2]
    /\ multiResults = <<>>
    /\ target = 1
    /\ mpc = "loop"

\* The loop takes the next target and calls validator.validateUrl or
\* validator.validateFile, which resets the validator's arrays and runs to
\* its await (of fetch, or of fs.readFile).
ValidateTarget ==
    /\ mpc = "loop"
    /\ target <= Len(paths)
    /\ heap' = Reset(heap, validator).heap
    /\ validator' = Reset(heap, validator).validator
    /\ mpc' = "validating"
    /\ UNCHANGED <<paths, recursiveOption, multiResults, target>>
    /\ UNCHANGED <<sweepVars, batchVars, walkVars, contentVars, groupVars, healthVars>>

\* The fetch or read is over: the call pushes what it finds onto the
\* validator's arrays and returns getResults(), which holds those arrays;
\* the loop stores the result under the target.  No child is walked:
\* WalksChildren is false of every result.
TargetValidated(outcome) ==
    /\ mpc = "validating"
    /\ LET pathOrUrl == paths[target]
           supplied == [given |-> TRUE, recursive |-> recursiveOption,
                        depth |-> {}, maxDepth |-> {}]
           res == IF IsUrl(pathOrUrl) THEN FetchedResults(outcome)
                                      ELSE ReadResults(outcome)
           pushed == [heap EXCEPT ![validator.errors] = @ \o res.errors,
                                  ![validator.warnings] = @ \o res.warnings]
           result == [valid |-> pushed[validator.errors] = <<>>,
                      errors |-> validator.errors,
                      warnings |-> validator.warnings]
       IN  /\ outcome \in TargetOutcomes(pathOrUrl)
           /\ ~(IsUrl(pathOrUrl) /\ WalksChildren(WithDefaults(supplied), res))
           /\ heap' = pushed
           /\ multiResults' = Put(multiResults, pathOrUrl, result)
    /\ target' = target + 1
    /\ mpc' = "loop"
    /\ UNCHANGED <<paths, recursiveOption, validator>>
    /\ UNCHANGED <<sweepVars, batchVars, walkVars, contentVars, groupVars, healthVars>>

\* After the last target the summary is printed and results returned.
ReturnMultiResults ==
    /\ mpc = "loop"
    /\ target > Len(paths)
    /\ mpc' = "returned"
    /\ UNCHANGED <<paths, recursiveOption, heap, validator, multiResults, target>>
    /\ UNCHANGED <<sweepVars, batchVars, walkVars, contentVars, groupVars, healthVars>>

NextMulti ==
    \/ ValidateTarget
    \/ \E outcome \in FetchOutcomes : TargetValidated(outcome)
    \/ ReturnMultiResults

(***************************************************************************)
(* The grouping script                                                     *)
(***************************************************************************)
MaxGroupRows == 3

\* const startRow = 949
startRow == 949

\* the URLs of the list: county and position pages of two states, and a
\* page that is no election page
GroupUrls == { "https://goodparty.org/elections/ca/alameda-county",
               "https://goodparty.org/elections/position/ca/mayor",
               "https://goodparty.org/elections/tx/travis-county",
               "https://goodparty.org/about" }

\* parseUrl's null
NoElection == [state |-> "", type |-> ""]

\* parseUrl(url): url.split('/') has 'elections' at [3]; then either
\* 'position' at [4] and a two-character [5], or a two-letter [4].
ParseUrl(u) ==
    CASE u = "https://goodparty.org/elections/ca/alameda-county"
            -> [state |-> "ca", type |-> "counties"]
      [] u = "https://goodparty.org/elections/position/ca/mayor"
            -> [state |-> "ca", type |-> "positions"]
      [] u = "https://goodparty.org/elections/tx/travis-county"
            -> [state |-> "tx", type |-> "counties"]
      [] OTHER -> NoElection

GroupInputs == UNION { [1..n -> GroupUrls] : n \in 0..MaxGroupRows }

InitGroup ==
    /\ inputTail \in GroupInputs
    /\ dataRows = <<>>
    /\ index = 0
    /\ currentState = ""
    /\ currentType = ""
    /\ startRowNum = startRow
    /\ ranges = <<>>
    /\ groupings = <<>>
    /\ gpc = "reading"

\* The first await: the 'data' handler keeps the rows from startRow on; the
\* stream ends, or the parser reports an error and processCsv rejects
\* (console.error).
ReadInput(readOk) ==
    /\ gpc = "reading"
    /\ IF readOk
         THEN dataRows' = inputTail /\ gpc' = "rows"
         ELSE UNCHANGED dataRows /\ gpc' = "failed"
    /\ UNCHANGED <<inputTail, index, currentState, currentType, startRowNum, ranges,
                   groupings>>
    /\ UNCHANGED <<sweepVars, batchVars, walkVars, contentVars, multiVars, healthVars>>

\* { State, Type, 'First Row', 'Last Row' }
RangeRecord(s, t, first, last) ==
    [State |-> s, Type |-> t, FirstRow |-> first, LastRow |-> last]

\* index === rows.length - 1
IsLastRow(i, n) == i = n - 1

\* One call of the forEach callback, on rows[index].
ForEachRow ==
    /\ gpc = "rows"
    /\ index < Len(dataRows)
    /\ LET parsed == ParseUrl(dataRows[index + 1])
           closed == RangeRecord(currentState, currentType, startRowNum,
                                 startRow + index - 1)
           stateChanged == parsed.state # currentState
           typeChanged == parsed.type # currentType
           pushed == IF stateChanged
                       THEN (IF currentState # "" THEN Append(ranges, closed) ELSE ranges)
                       ELSE (IF typeChanged THEN Append(ranges, closed) ELSE ranges)
           opened == stateChanged \/ typeChanged
           first == IF opened THEN startRow + index ELSE startRowNum
       IN  IF parsed = NoElection
             THEN UNCHANGED <<currentState, currentType, startRowNum, ranges>>
             ELSE /\ currentState' = parsed.state
                  /\ currentType' = parsed.type
                  /\ startRowNum' = first
                  /\ ranges' = IF IsLastRow(index, Len(dataRows))
                                 THEN Append(pushed,
                                             RangeRecord(parsed.state, parsed.type, first,
                                                         startRow + index))
                                 ELSE pushed
    /\ index' = index + 1
    /\ UNCHANGED <<inputTail, dataRows, groupings, gpc>>
    /\ UNCHANGED <<sweepVars, batchVars, walkVars, contentVars, multiVars, healthVars>>

\* await csvWriter.writeRecords(ranges); a write error rejects processCsv.
WriteRanges(writeOk) ==
    /\ gpc = "rows"
    /\ index = Len(dataRows)
    /\ IF writeOk
         THEN groupings' = ranges /\ gpc' = "written"
         ELSE UNCHANGED groupings /\ gpc' = "failed"
    /\ UNCHANGED <<inputTail, dataRows, index, currentState, currentType, startRowNum,
                   ranges>>
    /\ UNCHANGED <<sweepVars, batchVars, walkVars, contentVars, multiVars, healthVars>>

NextGroup ==
    \/ \E readOk \in BOOLEAN : ReadInput(readOk)
    \/ ForEachRow
    \/ \E writeOk \in BOOLEAN : WriteRanges(writeOk)

(***************************************************************************)
(* SitemapHealthCheck                                                      *)
(***************************************************************************)
MaxCounted == 3

\* <loc> values of the entries handed to the health check ("" is no <loc>)
HealthLocs == {"", "https://a/p", SpaceLoc}

UrlLists(n) == UNION { [1..k -> HealthLocs] : k \in 1..n }

\* what checkUrlStatus's HEAD request gives: a status, or a network error
Statuses == {"200", "301", "404", "error"}

\* isSuspiciousUrl(url): of the model's locations the one with a space
IsSuspiciousUrl(l) == l = SpaceLoc

\* getSuspiciousReason(url): no '-(joint)'; url.includes('//') is true of
\* every absolute URL
GetSuspiciousReason(l) == "Double slashes in path"

\* the entries with a location, in order
WithLoc(urls) == SelectSeq(urls, LAMBDA l : l # "")

\* constructor: this.results = { totalUrls: 0, ..., duplicateUrls: new Set(), ... }
InitHealth ==
    /\ totalUrls = 0
    /\ duplicateUrls = {}
    /\ suspiciousUrls = <<>>
    /\ urlsByStatus = <<>>
    /\ urlsWith404s = <<>>
    /\ urlsWithRedirects = <<>>
    /\ counted = <<>>
    /\ sampling = <<>>
    /\ hpc = "idle"

\* processUrlset(sitemapUrl, urlset): every entry with a location is counted
\* and its location added to the Set.  The loop has no await.
ProcessUrlset(urls) ==
    /\ hpc = "idle"
    /\ Len(counted) + Len(urls) <= MaxCounted
    /\ totalUrls' = totalUrls + Len(WithLoc(urls))
    /\ duplicateUrls' = duplicateUrls \cup Range(WithLoc(urls))
    /\ counted' = counted \o WithLoc(urls)
    /\ UNCHANGED <<suspiciousUrls, urlsByStatus, urlsWith404s, urlsWithRedirects,
                   sampling, hpc>>
    /\ UNCHANGED <<sweepVars, batchVars, walkVars, contentVars, multiVars, groupVars>>

\* checkSingleSitemap calls sampleCheckUrls(urls, identifier).
CallSampleCheckUrls(urls) ==
    /\ hpc = "idle"
    /\ Len(counted) + Len(urls) <= MaxCounted
    /\ sampling' = urls
    /\ hpc' = "sampling"
    /\ UNCHANGED <<totalUrls, duplicateUrls, suspiciousUrls, urlsByStatus, urlsWith404s,
                   urlsWithRedirects, counted>>
    /\ UNCHANGED <<sweepVars, batchVars, walkVars, contentVars, multiVars, groupVars>>

\* One turn of sampleCheckUrls's loop, on the next entry: an entry without
\* location is passed over; otherwise a suspicious location is noted, the
\* entry counted and, when Math.random() < 0.1, checkUrlStatus(loc) awaited,
\* which counts the status and notes a 404 or a redirect.  After the last
\* entry the call returns.
SampleCheckUrl(checked, status) ==
    /\ hpc = "sampling"
    /\ LET l == Head(sampling)
       IN  IF l = ""
             THEN UNCHANGED <<totalUrls, suspiciousUrls, urlsByStatus, urlsWith404s,
                              urlsWithRedirects, counted>>
             ELSE /\ suspiciousUrls' =
                        IF IsSuspiciousUrl(l)
                          THEN Append(suspiciousUrls,
                                      [url |-> l, reason |-> GetSuspiciousReason(l)])
                          ELSE suspiciousUrls
                  /\ totalUrls' = totalUrls + 1
                  /\ counted' = Append(counted, l)
                  /\ IF checked
                       THEN /\ urlsByStatus' =
                                  Put(urlsByStatus, status,
                                      IF status \in DOMAIN urlsByStatus
                                        THEN urlsByStatus[status] + 1 ELSE 1)
                            /\ urlsWith404s' = IF status = "404"
                                                 THEN Append(urlsWith404s, l)
                                                 ELSE urlsWith404s
                            /\ urlsWithRedirects' =
                                  IF status = "301"
                                    THEN Append(urlsWithRedirects,
                                                [url |-> l, status |-> status])
                                    ELSE urlsWithRedirects
                       ELSE UNCHANGED <<urlsByStatus, urlsWith404s, urlsWithRedirects>>
    /\ sampling' = Tail(sampling)
    /\ hpc' = IF Tail(sampling) = <<>> THEN "idle" ELSE "sampling"
    /\ UNCHANGED duplicateUrls
    /\ UNCHANGED <<sweepVars, batchVars, walkVars, contentVars, multiVars, groupVars>>

\* generateReport(): the 'Duplicate URLs' figure
DuplicateUrlsFigure == totalUrls - Cardinality(duplicateUrls)

NextHealth ==
    \/ \E urls \in UrlLists(MaxCounted) : ProcessUrlset(urls)
    \/ \E urls \in UrlLists(MaxCounted) : CallSampleCheckUrls(urls)
    \/ \E status \in Statuses : SampleCheckUrl(TRUE, status)
    \/ SampleCheckUrl(FALSE, "200")

(***************************************************************************)
(* Specifications: one per program; the other programs stay idle.          *)
(***************************************************************************)
IdleSweep ==
    /\ passed = RequiredOptions
    /\ concurrencyLimit = 1
    /\ maxNon404Results = 0
    /\ firstRow = 1
    /\ lastRow = 1
    /\ InitSweep

IdleBatch ==
    /\ store = <<>>
    /\ storeHeader = <<"Number", "404s", "Non-404 Errors">>
    /\ InitBatch

IdleContent ==
    /\ content = [xmlns |-> SITEMAP_NAMESPACE, url |-> <<>>, pad |-> 0]
    /\ InitContent

IdleMulti ==
    /\ paths = <<>>
    /\ recursiveOption = FALSE
    /\ InitMulti

IdleGroup ==
    /\ inputTail = <<>>
    /\ InitGroup


InitSweepSpec == IdleBatch /\ InitWalk /\ IdleContent /\ IdleMulti /\ IdleGroup /\ InitHealth /\ InitSweep

InitBatchSpec == IdleSweep /\ InitWalk /\ IdleContent /\ IdleMulti /\ IdleGroup /\ InitHealth /\ InitBatch

InitWalkSpec == IdleSweep /\ IdleBatch /\ IdleContent /\ IdleMulti /\ IdleGroup /\ InitHealth /\ InitWalk

InitContentSpec == IdleSweep /\ IdleBatch /\ InitWalk /\ IdleMulti /\ IdleGroup /\ InitHealth /\ InitContent

InitMultiSpec == IdleSweep /\ IdleBatch /\ InitWalk /\ IdleContent /\ IdleGroup /\ InitHealth /\ InitMulti

SpecSweep == InitSweepSpec /\ [][NextSweep]_vars

SpecBatch == InitBatchSpec /\ [][NextBatch]_vars

SpecWalk == InitWalkSpec /\ [][NextWalk]_vars

SpecContent == InitContentSpec /\ [][NextContent]_vars

SpecMulti == InitMultiSpec /\ [][NextMulti]_vars

InitGroupSpec ==
    IdleSweep /\ IdleBatch /\ InitWalk /\ IdleContent /\ IdleMulti /\ InitHealth /\ InitGroup

InitHealthSpec ==
    IdleSweep /\ IdleBatch /\ InitWalk /\ IdleContent /\ IdleMulti /\ IdleGroup /\ InitHealth

SpecGroup == InitGroupSpec /\ [][NextGroup]_vars

SpecHealth == InitHealthSpec /\ [][NextHealth]_vars

\* The walker with its scheduling: a fetch that the server answers settles,
\* and a call that has its results returns them.
\* Whether a call ends depends on what its fetch gives only through the kind
\* of the outcome and the children an index lists: the outcomes with the
\* protocol's namespace, and two of the URLs, one of them listed by indexes.
LiveOutcomes ==
    { o \in FetchOutcomes :
        o.kind \in {"sitemapindex", "urlset"} => o.xmlns = SITEMAP_NAMESPACE }

LiveUrls == {"https://a/sitemap.xml", "https://a/s/1.xml"}

NextWalkLive ==
    \/ \E url \in LiveUrls, supplied \in SuppliedOptions : CallValidateUrl(url, supplied)
    \/ \E outcome \in LiveOutcomes : FetchReturns(outcome)
    \/ FetchNeverAnswered
    \/ ReturnResults

SpecWalkLive ==
    /\ InitWalkSpec
    /\ [][NextWalkLive]_vars
    /\ WF_vars(\E outcome \in LiveOutcomes : FetchReturns(outcome))
    /\ WF_vars(ReturnResults)

(***************************************************************************)
(* Claims about auditSitemapURLs (checked under SpecSweep).                *)
(***************************************************************************)
StreamEnded == spc \in {"awaiting", "resolved", "unsettled"}

\* The data rows of [firstRow, lastRow] that the source list holds, in order.
RangeRows ==
    [i \in 1..(Min(lastRow, NumDataRows) - firstRow + 1) |-> firstRow + i - 1]

\* C1: at every instant the number of URL checks that have started their HTTP
\* request and not yet completed is at most the concurrency ceiling.
C1_AtMostCInFlight == Cardinality(inflight) <= concurrencyLimit

\* C1 witness: the ceiling is reached while further checks wait in the queue.
C1_Witness ==
    /\ Cardinality(inflight) = concurrencyLimit
    /\ Len(queue) > 0
    /\ concurrencyLimit > 1

\* C2: count404 + non404ErrorCount equals the number of recorded outcomes, and
\* no recorded outcome belongs to a URL whose response status was 200.
C2_CountsMatchRecords ==
    /\ count404 + non404ErrorCount = Len(results)
    /\ \A i \in 1..Len(results) :
          response[results[i].url] # [kind |-> "response", status |-> 200]

\* C2 witness: a sweep that saw a 200, a 404 and a transport failure.
C2_Witness ==
    /\ count404 = 1
    /\ non404ErrorCount = 1
    /\ \E r \in DataRows : response[r] = [kind |-> "response", status |-> 200]
    /\ \E i \in 1..Len(results) : results[i].error = "No response received"
    /\ inflight = {}

\* C3 as stated: for every range the auditor submits exactly the rows of
\* [firstRow, lastRow], that is lastRow - firstRow + 1 URLs.
C3_ExactlyRangeSubmitted ==
    StreamEnded =>
        /\ Len(tasks) = lastRow - firstRow + 1
        /\ \A i \in 1..Len(tasks) : tasks[i] = firstRow + i - 1

\* C3 amended: only rows of [firstRow, lastRow] are submitted, in row order;
\* once the stream has ended without early stop having triggered, exactly the
\* rows of [firstRow, lastRow] that the source list holds have been submitted
\* (lastRow - firstRow + 1 of them when the list has at least lastRow rows).
C3_RangeSubmittedUnlessStopped ==
    /\ IsPrefix(tasks, RangeRows)
    /\ (StreamEnded /\ (maxNon404Results = 0 \/ ~shouldStop)) => tasks = RangeRows
    /\ (StreamEnded /\ (maxNon404Results = 0 \/ ~shouldStop) /\ lastRow <= NumDataRows)
          => Len(tasks) = lastRow - firstRow + 1

\* C3 witness: a range that starts after the first data row and ends inside
\* the list has been submitted in full.
C3_Witness ==
    /\ StreamEnded
    /\ firstRow = 2
    /\ lastRow = NumDataRows
    /\ tasks = RangeRows
    /\ Len(tasks) = lastRow - firstRow + 1

(***************************************************************************)
(* Claims about automateAudits (checked under SpecBatch).                  *)
(***************************************************************************)
\* A cell that is empty or whitespace only.
Blank(s) == Trim(s) = ""

PendingAtStart(i) == Blank(startStore[i]["404s"]) /\ Blank(startStore[i]["Non-404 Errors"])

\* C4: an exception raised while processing one pending range never aborts
\* the batch: when the run is over every other pending range has been
\* audited, the store has been written with their counts, and the failing
\* range's counts are blank in the written store.
C4_RangeFailureNeverAbortsBatch ==
    (/\ bpc \in {"done", "aborted"}
     /\ \E i \in 1..Len(auditResult) :
           auditResult[i] \in {"rejected", "unsettled", "crashed"})
    => /\ \A j \in 1..Len(auditResult) : auditResult[j] # "none"
       /\ storeWrites = 1
       /\ \A j \in 1..Len(auditResult) :
             /\ auditResult[j] = "resolved" => store[j]["404s"] = rows[j]["404s"]
             /\ auditResult[j] \in {"rejected", "unsettled", "crashed"}
                   => Blank(store[j]["404s"])

\* C5: a run that follows a completed run in which no audit failed, with the
\* store left as that run wrote it, invokes the range auditor zero times.
C5_SecondRunAuditsNothing ==
    (/\ runNo >= 2
     /\ prevRun.ended = "done"
     /\ \A i \in 1..Len(prevRun.auditResult) :
           prevRun.auditResult[i] \in {"resolved", "skipped"})
    => auditCalls = <<>>

\* C5 witness: the first run audited two ranges, one of them with a count of
\* 0, and the second run has gone through the whole store without an audit.
C5_Witness ==
    /\ runNo = 2
    /\ bpc = "done"
    /\ prevRun.ended = "done"
    /\ Len(prevRun.auditCalls) = 2
    /\ \A i \in 1..Len(prevRun.auditResult) : prevRun.auditResult[i] = "resolved"
    /\ store[1]["404s"] = "0"
    /\ auditCalls = <<>>
    /\ \A i \in 1..Len(auditResult) : auditResult[i] = "skipped"

\* C6: a range is audited in a run if and only if both its 404s cell and its
\* Non-404 Errors cell are blank (empty or whitespace only).
C6_AuditedIffBothCellsBlank ==
    \A i \in 1..Len(auditResult) :
        auditResult[i] # "none" =>
            ((auditResult[i] # "skipped") <=> PendingAtStart(i))

(***************************************************************************)
(* Claims about SitemapValidator (checked under SpecWalk).                 *)
(***************************************************************************)
\* a returned call that validated an index which lists children, with
\* recursion on and depth below maxDepth
WalkDue(e) ==
    /\ e.doc.kind = "sitemapindex"
    /\ Len(e.doc.locs) > 0
    /\ e.options.recursive
    /\ Lt(e.options.depth, e.options.maxDepth)

\* the children the fan-out bound lets through
FanOut(e) ==
    IF IsZero(e.options.depth) THEN Len(e.doc.locs)
    ELSE Min(MaxChildSitemaps, Len(e.doc.locs))

\* C7: when validateUrl validates a sitemap index with recursive true and
\* depth < maxDepth, every child location (within the fan-out bound) is
\* validated by a validateUrl call at depth + 1 and the parent's result holds
\* the child's result in childResults under the child's URL.
C7_ChildrenValidatedRecursively ==
    \A i \in 1..Len(done) :
        WalkDue(done[i]) =>
            /\ "childResults" \in done[i].result.props
            /\ \A k \in 1..FanOut(done[i]) :
                  /\ done[i].doc.locs[k] \in DOMAIN done[i].result.childResults
                  /\ \E j \in 1..Len(fetches) :
                        /\ fetches[j].url = done[i].doc.locs[k]
                        /\ fetches[j].depth = PlusOne(done[i].options.depth)

\* C8: the result of validating a sitemap index carries childSitemaps, the
\* location URLs of the index's entries in document order.
C8_IndexResultCarriesChildSitemaps ==
    \A i \in 1..Len(done) :
        done[i].doc.kind = "sitemapindex" =>
            /\ "childSitemaps" \in done[i].result.props
            /\ done[i].result.childSitemaps = done[i].doc.locs

\* C9: a validateUrl call whose options supply only recursive behaves as if
\* depth = 0 and maxDepth = 3: the call runs at depth 0 and, for an index
\* that lists children, the children are walked (0 < 3).
C9_RecursiveAloneMeansDepth0MaxDepth3 ==
    \A i \in 1..Len(done) :
        (/\ done[i].supplied.given
         /\ done[i].supplied.recursive
         /\ done[i].supplied.depth = {}
         /\ done[i].supplied.maxDepth = {})
        => /\ done[i].options.depth = {0}
           /\ done[i].options.maxDepth = {3}
           /\ (done[i].doc.kind = "sitemapindex" /\ Len(done[i].doc.locs) > 0)
                 => "childResults" \in done[i].result.props

\* C10: an index at depth 0 has all of its children traversed; an index at a
\* depth > 0 has at most its first 10 children traversed and its result
\* carries the truncation warning if and only if some children were skipped.
C10_FanOutBound ==
    \A i \in 1..Len(done) :
        WalkDue(done[i]) =>
            LET walked == DOMAIN done[i].result.childResults
                all == {done[i].doc.locs[k] : k \in 1..Len(done[i].doc.locs)}
                warned == \E w \in 1..Len(done[i].result.warnings) :
                             done[i].result.warnings[w] = "Only validated some child sitemaps"
            IN  IF IsZero(done[i].options.depth)
                  THEN walked = all /\ ~warned
                  ELSE /\ walked = {done[i].doc.locs[k] : k \in 1..FanOut(done[i])}
                       /\ warned <=> Len(done[i].doc.locs) > MaxChildSitemaps

\* an index that lists children, reached by a recursive call whose depth has
\* used up maxDepth
DepthExhausted(e) ==
    /\ e.doc.kind = "sitemapindex"
    /\ Len(e.doc.locs) > 0
    /\ e.options.recursive
    /\ ~Lt(e.options.depth, e.options.maxDepth)

\* C11: the walker never fetches a document at a depth greater than maxDepth;
\* with maxDepth 1 the depth-0 index and its depth-1 children are validated;
\* a branch stopped by depth exhaustion adds no warning to the result.
C11_DepthBoundedSilently ==
    \A i \in 1..Len(done) :
        LET e == done[i]
        IN  /\ ~Lt(e.options.maxDepth, e.options.depth)
            /\ (WalkDue(e) /\ e.options.depth = {0} /\ e.options.maxDepth = {1})
                  => \A k \in 1..Len(e.doc.locs) :
                        \E j \in 1..Len(fetches) :
                           /\ fetches[j].url = e.doc.locs[k]
                           /\ fetches[j].depth = {1}
            /\ DepthExhausted(e)
                  => e.result.warnings = ValidateContent(e.doc).warnings

\* the errors a node's own fetch or read and its own content give rise to
OwnErrors(e) ==
    IF e.op = "validateFile" THEN ReadResults(e.doc).errors
    ELSE FetchedResults(e.doc).errors

\* C12: in every result returned by validateUrl or validateFile (both return
\* what validateContent returns), valid is true if and only if the errors
\* list of that result is empty, and that list holds the node's own errors
\* only, whatever its child results hold.
C12_ValidIffOwnErrorsEmpty ==
    \A i \in 1..Len(done) :
        /\ done[i].result.valid <=> (done[i].result.errors = <<>>)
        /\ done[i].result.errors = OwnErrors(done[i])
        /\ {"valid", "errors"} \subseteq done[i].result.props

\* C12 witness: a sitemap index without namespace and with an entry that has
\* no location came back invalid with both errors.
C12_Witness ==
    \E i \in 1..Len(done) :
        /\ done[i].op = "validateUrl"
        /\ done[i].doc.kind = "sitemapindex"
        /\ Len(done[i].result.errors) >= 2
        /\ ~done[i].result.valid

\* C18: every network request carries a timeout, so a validateUrl call whose
\* server never answers still ends: every call that was started returns.
C18_EveryCallReturns == (stack # <<>>) ~> (stack = <<>>)

\* C19: validateUrl and validateFile return a Validation Result for every
\* fetch or read outcome and every content.  A fetch or read failure,
\* malformed XML and an unknown root give valid false with the corresponding
\* error recorded, no warning from an entry-level check, no child results
\* and no fetch of a child.
C19_FailuresAreResults ==
    \A i \in 1..Len(done) :
        LET e == done[i]
        IN  /\ {"valid", "errors", "warnings"} \subseteq e.result.props
            /\ e.doc.kind \in {"throws", "notOk", "invalidXml", "otherRoot"}
                  => /\ ~e.result.valid
                     /\ \E k \in 1..Len(e.result.errors) : e.result.errors[k] =
                           CASE e.doc.kind = "throws" /\ e.op = "validateUrl" -> "Failed to fetch URL"
                             [] e.doc.kind = "throws" -> "Failed to read file"
                             [] e.doc.kind = "notOk" -> "HTTP status"
                             [] e.doc.kind = "invalidXml" -> "Invalid XML"
                             [] OTHER -> "Root element must be either <urlset> or <sitemapindex>"
                     /\ e.result.warnings = <<>>
                     /\ "childResults" \notin e.result.props
                     /\ \A j \in 1..Len(fetches) : fetches[j].level <= e.level

\* C19 witness: a validateUrl call whose fetch threw has returned its result
\* to the caller.
C19_Witness ==
    \E i \in 1..Len(walkResults) :
        /\ walkResults[i].op = "validateUrl"
        /\ walkResults[i].doc.kind = "throws"
        /\ ~walkResults[i].result.valid

(***************************************************************************)
(* Claims about validateUrlset (checked under SpecContent).                *)
(***************************************************************************)
\* the findings on the entries of URL set c that call for a warning: entry i
\* repeats an earlier location, or carries a lastmod that is no W3C date, a
\* changefreq outside the seven values, a priority that is no number of
\* [0.0, 1.0].  An entry without location is reported as such and not
\* looked at further.
WarningFindings(c) ==
    LET located == { i \in 1..Len(c.url) : c.url[i].loc # "" }
    IN  { <<i, "duplicate">> : i \in { k \in located :
                                         \E j \in 1..(k - 1) : c.url[j].loc = c.url[k].loc } }
        \cup { <<i, "lastmod">> : i \in { k \in located :
                                            c.url[k].lastmod \in {"2024-13-45", "yesterday"} } }
        \cup { <<i, "changefreq">> : i \in { k \in located : c.url[k].changefreq = "sometimes" } }
        \cup { <<i, "priority">> : i \in { k \in located :
                                             c.url[k].priority \in {"1.5", "abc", "-0.3"} } }

\* the findings that call for an error: a missing location, a location that
\* is no URL, a location with an unencoded space, more than 50,000 entries
ErrorFindings(c) ==
    { <<i, "missing">> : i \in { k \in 1..Len(c.url) : c.url[k].loc = "" } }
    \cup { <<i, "invalid">> : i \in { k \in 1..Len(c.url) : c.url[k].loc = "not a url" } }
    \cup { <<i, "space">> : i \in { k \in 1..Len(c.url) : c.url[k].loc = "https://a/x y" } }
    \cup (IF Len(c.url) + c.pad > 50000 THEN { <<0, "count">> } ELSE {})

\* nothing else is wrong with c: the namespace is there, no bare ampersand
NothingElseWrong(c) ==
    /\ c.xmlns = "http://www.sitemaps.org/schemas/sitemap/0.9"
    /\ \A i \in 1..Len(c.url) : c.url[i].loc # "https://a/p?x=1&y=2"

C13_EarlyStopIsBestEffort ==
    /\ [][(maxNon404Results > 0 /\ non404ErrorCount >= maxNon404Results)
            => inflight' \subseteq inflight]_vars
    /\ [](maxNon404Results = 0 =>
            /\ ~shouldStop
            /\ spc = "resolved" =>
                 \A k \in 1..Len(tasks) : response[tasks[k]] # NoOutcome)

\* C13 witness: with T = 1 two checks were in flight when the first error
\* came in, both were counted, and a third submitted row was never requested.
C13_Witness ==
    /\ maxNon404Results = 1
    /\ non404ErrorCount = 2
    /\ Len(results) = 2
    /\ spc = "resolved"
    /\ \E k \in 1..Len(tasks) : response[tasks[k]] = NoOutcome

\* the call lacks outputCsv, or firstRow is missing or 0, or lastRow is
\* missing or 0
BadConfiguration ==
    \/ "outputCsv" \notin passed
    \/ "firstRow" \notin passed
    \/ "lastRow" \notin passed
    \/ ("firstRow" \in passed /\ firstRow = 0)
    \/ ("lastRow" \in passed /\ lastRow = 0)

\* C14: a call with a bad configuration fails with a configuration error
\* before the source list is opened, before the output sink is created and
\* before any HTTP request is made: it never gets past the check, and once
\* the check has run the promise is rejected.
C14_ConfigErrorBeforeAnyIO ==
    BadConfiguration =>
        /\ spc \in {"called", "rejected"}
        /\ spc = "rejected" => failure = "config"
        /\ io = {}
        /\ streamPos = 0
        /\ tasks = <<>>
        /\ inflight = {}
        /\ \A r \in DataRows : response[r] = NoOutcome
        /\ written = <<>>

\* C14 witness: a call that passed all three options, with firstRow 0, has
\* been rejected.
C14_Witness ==
    /\ passed = RequiredOptions
    /\ firstRow = 0
    /\ lastRow > 0
    /\ spc = "rejected"
    /\ failure = "config"

\* the records of data row r in results
RecordsOf(r) == { i \in 1..Len(results) : results[i].url = r }

\* C16: every checked URL falls in exactly one class: status 200 (nothing
\* recorded), a non-200 status (one record, status only; counted in count404
\* if 404, in non404ErrorCount otherwise), a transport or setup failure (one
\* record, error only; counted in non404ErrorCount).  The counters count the
\* URLs of their classes and nothing else.
C16_OneClassPerUrl ==
    /\ \A r \in DataRows :
          LET o == response[r]
          IN  CASE o = NoOutcome -> RecordsOf(r) = {}
                [] o.kind \in {"response", "errorResponse"} /\ o.status = 200 ->
                      RecordsOf(r) = {}
                [] o.kind \in {"response", "errorResponse"} ->
                      /\ Cardinality(RecordsOf(r)) = 1
                      /\ \A i \in RecordsOf(r) :
                            results[i].status = o.status /\ results[i].error = ""
                [] OTHER ->
                      /\ Cardinality(RecordsOf(r)) = 1
                      /\ \A i \in RecordsOf(r) :
                            results[i].status = 0 /\ results[i].error # ""
    /\ count404 = Cardinality({ r \in DataRows :
                                  response[r].kind \in {"response", "errorResponse"}
                                  /\ response[r].status = 404 })
    /\ non404ErrorCount =
          Cardinality({ r \in DataRows :
                          \/ response[r].kind \in {"noResponse", "setupError"}
                          \/ /\ response[r].kind \in {"response", "errorResponse"}
                             /\ response[r].status \notin {200, 404} })

\* C16 witness: a sweep has seen a 200, a non-200 status in a successful
\* response, and a request that could not be set up.
C16_Witness ==
    /\ \E r \in DataRows : response[r] = [kind |-> "response", status |-> 200]
    /\ \E r \in DataRows : response[r] = [kind |-> "response", status |-> 204]
    /\ \E r \in DataRows : response[r].kind = "setupError"
    /\ Len(results) = 2
    /\ spc = "resolved"

\* C20: a storage failure inside the auditor (the source list cannot be
\* read, the output of non-200 outcomes cannot be written) rejects the
\* returned promise; the promise is never left unsettled.
C20_StorageFailureRejects ==
    failure \in {"read", "write"} => spc = "rejected"

(***************************************************************************)
(* Further claims about automateAudits (checked under SpecBatch).          *)
(***************************************************************************)
\* C15: when a run completes, the written store holds every input range in
\* the input order, under the input columns in their original order; a
\* skipped range is written with all its fields unchanged, and an audited
\* range differs from its input in its 404s and Non-404 Errors fields only.
C15_StoreWrittenInFull ==
    bpc = "done" =>
        /\ storeHeader = startHeader
        /\ Len(store) = Len(startStore)
        /\ \A i \in 1..Len(store) :
              /\ DOMAIN store[i] = DOMAIN startStore[i]
              /\ auditResult[i] = "skipped" => store[i] = startStore[i]
              /\ \A c \in DOMAIN store[i] \ {"404s", "Non-404 Errors"} :
                    store[i][c] = startStore[i][c]

\* C15 witness: a run over a store whose count columns come first has
\* skipped one range, audited another and written the store.
C15_Witness ==
    /\ bpc = "done"
    /\ storeWrites = 1
    /\ startHeader = <<"404s", "Non-404 Errors", "Number">>
    /\ \E i \in 1..Len(auditResult) : auditResult[i] = "skipped"
    /\ \E i \in 1..Len(auditResult) :
          auditResult[i] = "resolved" /\ store[i] # startStore[i]

(***************************************************************************)
(* Claims about the order of checks in auditSitemapURLs (SpecSweep).       *)
(***************************************************************************)
\* the data rows whose request has been issued
Started == inflight \cup { r \in DataRows : response[r] # NoOutcome }

\* the records that the outcomes of the submitted rows call for
RecordsDue == UNION { { RecordFor(tasks[k], response[tasks[k]])[j] :
                          j \in 1..Len(RecordFor(tasks[k], response[tasks[k]])) } :
                      k \in 1..Len(tasks) }

\* C21: with early stop disabled, the final count404, the final
\* non404ErrorCount and the set of recorded outcomes are determined by the
\* outcome of each URL alone, whatever the order in which the checks
\* completed.
C21_FinalCountsOrderIndependent ==
    (maxNon404Results = 0 /\ spc = "resolved") =>
        /\ \A k \in 1..Len(tasks) : response[tasks[k]] # NoOutcome
        /\ summary.count404 =
              Cardinality({ k \in 1..Len(tasks) : Count404Increment(response[tasks[k]]) = 1 })
        /\ summary.non404ErrorCount =
              Cardinality({ k \in 1..Len(tasks) : Non404Increment(response[tasks[k]]) = 1 })
        /\ { written[i] : i \in 1..Len(written) } = RecordsDue
        /\ Len(written) = Cardinality(RecordsDue)

\* C21 witness: two checks were in flight together and completed in the
\* reverse of their row order, one of them with a 404.
C21_Witness ==
    /\ maxNon404Results = 0
    /\ spc = "resolved"
    /\ summary.count404 = 1
    /\ Len(written) >= 2
    /\ written[1].url > written[2].url

\* C22: with threshold T > 0 and ceiling C, non404ErrorCount never exceeds
\* T + C - 1.
C22_OvershootBound ==
    maxNon404Results > 0 => non404ErrorCount <= maxNon404Results + concurrencyLimit - 1

\* C22 witness: the bound is met with C > 1: every check that was in flight
\* when the threshold was reached failed too, and more rows were waiting.
C22_Witness ==
    /\ maxNon404Results > 0
    /\ concurrencyLimit > 1
    /\ non404ErrorCount = maxNon404Results + concurrencyLimit - 1
    /\ Len(tasks) > non404ErrorCount
    /\ inflight = {}
    /\ queue = <<>>

\* the 404 rows of the output
Written404 == { i \in 1..Len(written) : written[i].status = 404 }

\* C24: the summary is delivered only after every dispatched check has
\* completed and the outcomes have been written: then no check is in flight
\* or waiting, the summary's counts are the numbers of 404 and non-404 rows
\* of the output, and the counters stay what the summary says.
C24_SummaryAfterAllChecks ==
    spc = "resolved" =>
        /\ inflight = {}
        /\ queue = <<>>
        /\ written = results
        /\ summary.count404 = Cardinality(Written404)
        /\ summary.non404ErrorCount = Len(written) - Cardinality(Written404)
        /\ count404 = summary.count404
        /\ non404ErrorCount = summary.non404ErrorCount

\* C24 witness: a summary with a 404 and another error was delivered after
\* three submitted checks.
C24_Witness ==
    /\ spc = "resolved"
    /\ Len(tasks) = 3
    /\ summary.count404 = 1
    /\ summary.non404ErrorCount = 1
    /\ Len(written) = 2

\* C28: requests begin in the order of the input rows: when the request of a
\* row has started, every earlier row of the range that was submitted has
\* started its request or was passed over by early stop, and none of them is
\* still waiting.
C28_RequestsStartInRowOrder ==
    \A r \in Started :
        \A k \in 1..Len(tasks) :
            tasks[k] < r =>
                /\ \A q \in 1..Len(queue) : queue[q] # tasks[k]
                /\ tasks[k] \in Started \/ shouldStop

\* C28 witness: with a ceiling of 1 the second row of the range waits while
\* the first is in flight, and later the second is in flight with the third
\* waiting.
C28_Witness ==
    /\ concurrencyLimit = 1
    /\ Len(tasks) = 3
    /\ inflight = {tasks[2]}
    /\ queue = <<tasks[3]>>
    /\ response[tasks[1]] # NoOutcome

(***************************************************************************)
(* Claims about the order of steps in automateAudits (SpecBatch).          *)
(***************************************************************************)
\* C23: in one run the store is written at most once, and only after every
\* range has been skipped or attempted; while a range is being audited or
\* waiting, and in a run that ended in a failure before the write, the store
\* is as the run found it.
C23_StoreWrittenOnceAtTheEnd ==
    /\ storeWrites <= 1
    /\ storeWrites = 1 =>
          /\ bpc = "done"
          /\ \A i \in 1..Len(auditResult) :
                auditResult[i] \in {"skipped", "resolved", "rejected"}
    /\ bpc # "done" =>
          /\ storeWrites = 0
          /\ store = startStore
          /\ storeHeader = startHeader

\* C23 witness: a run in which one audit was rejected and another resolved
\* has written the store once.
C23_Witness ==
    /\ bpc = "done"
    /\ storeWrites = 1
    /\ \E i \in 1..Len(auditResult) : auditResult[i] = "rejected"
    /\ \E i \in 1..Len(auditResult) : auditResult[i] = "resolved"
    /\ store # startStore

\* the in-memory row i takes the counts of a summary
TakesSummary(i) ==
    \E c \in AuditCounts :
        rows'[i] = [rows[i] EXCEPT !["404s"] = String(c[1]),
                                   !["Non-404 Errors"] = String(c[2])]

\* C25: pending ranges are audited one at a time in list order: an audit
\* starts only when every earlier range has been skipped or its audit has
\* succeeded or failed, and the in-memory counts of a range change only when
\* the audit of that very range delivers its summary.
C25_OneRangeAtATimeInOrder ==
    /\ [](/\ \A k \in 1..(Len(auditCalls) - 1) :
                /\ auditCalls[k].range < auditCalls[k + 1].range
                /\ auditResult[auditCalls[k].range] \in {"resolved", "rejected"}
          /\ \A k \in 1..Len(auditCalls) :
                \A j \in 1..(auditCalls[k].range - 1) : auditResult[j] # "none"
          /\ bpc = "auditing" =>
                /\ auditCalls[Len(auditCalls)].range = idx
                /\ auditResult[idx] = "none")
    /\ [][\A i \in 1..Len(rows) :
            (Len(rows') = Len(rows) /\ rows'[i] # rows[i]) =>
                (bpc = "auditing" /\ idx = i /\ TakesSummary(i))]_vars

\* C25 witness: the second range, pending like the first, has been audited
\* after the first and each row holds the counts of its own audit.
C25_Witness ==
    /\ bpc = "loop"
    /\ Len(auditCalls) = 2
    /\ auditResult[1] = "resolved"
    /\ auditResult[2] = "resolved"
    /\ rows[1]["404s"] = "12"
    /\ rows[2]["404s"] = "0"

(***************************************************************************)
(* Further claims about SitemapValidator (SpecWalk).                       *)
(***************************************************************************)
\* C30: for a sitemap index and for a URL set alike, the error 'Missing or
\* invalid xmlns namespace' is recorded whenever the root's xmlns is absent
\* or does not contain http://www.sitemaps.org/schemas/sitemap/0.9.
C30_NamespaceErrorRecorded ==
    \A i \in 1..Len(done) :
        (/\ done[i].doc.kind \in {"sitemapindex", "urlset"}
         /\ done[i].doc.xmlns # "http://www.sitemaps.org/schemas/sitemap/0.9")
        => \E k \in 1..Len(done[i].result.errors) :
              done[i].result.errors[k] = "Missing or invalid xmlns namespace"

\* the fetch at position j is the one of child k of the returned call e
FetchOfChild(e, k, j) ==
    /\ fetches[j].url = e.doc.locs[k]
    /\ fetches[j].depth = PlusOne(e.options.depth)
    /\ fetches[j].level = e.level + 1

\* C27: the walker walks the children of an index one after another in
\* childSitemaps order: each child within the fan-out bound is fetched, the
\* fetch of child k+1 is issued after that of child k, and at no time is
\* more than one fetch in flight.
C27_ChildrenWalkedOneAfterAnother ==
    /\ Cardinality({i \in 1..Len(stack) : stack[i].pc = "fetching"}) <= 1
    /\ \A i \in 1..Len(done) :
          WalkDue(done[i]) =>
              /\ \A k \in 1..FanOut(done[i]) :
                    \E j \in 1..Len(fetches) : FetchOfChild(done[i], k, j)
              /\ \A k \in 1..(FanOut(done[i]) - 1) :
                    \E a, b \in 1..Len(fetches) :
                       /\ a < b
                       /\ FetchOfChild(done[i], k, a)
                       /\ FetchOfChild(done[i], k + 1, b)

(***************************************************************************)
(* Termination of the walker (SpecWalkLive).                               *)
(***************************************************************************)
\* a validateUrl call with recursive true and a finite maxDepth is running
RecursiveCallRunning ==
    /\ stack # <<>>
    /\ stack[1].options.recursive
    /\ stack[1].options.maxDepth # {}

\* some fetch of the running call was never answered
FetchUnanswered == \E i \in 1..Len(stack) : stack[i].pc = "unanswered"

\* C29: for every finite maxDepth and every sitemap graph, an index that
\* lists itself included, a recursive validateUrl call terminates provided
\* each of its fetches returns.
C29_RecursiveCallTerminates ==
    RecursiveCallRunning ~> (stack = <<>> \/ FetchUnanswered)

\* C29 witness: a recursive call with depth below a finite maxDepth, on an
\* index that lists its own URL among its children, has returned.
C29_Witness ==
    /\ stack = <<>>
    /\ \E i \in 1..Len(walkResults) :
          /\ walkResults[i].op = "validateUrl"
          /\ WalkDue(walkResults[i])
          /\ walkResults[i].options.maxDepth # {}
          /\ \E k \in 1..Len(walkResults[i].doc.locs) :
                walkResults[i].doc.locs[k] = walkResults[i].url

(***************************************************************************)
(* Claims about validateMultipleSitemaps (checked under SpecMulti).        *)
(***************************************************************************)
\* C26: validation results do not share error or warning state: once a
\* result is stored for a target, nothing that happens later (the validator
\* validating another target, a child validator at work) adds to or removes
\* from the result's errors or warnings, and the stored result stays the one
\* it was until its own target is validated again.
C26_EarlierResultsUntouched ==
    [][\A p \in DOMAIN multiResults :
          /\ heap'[multiResults[p].errors] = heap[multiResults[p].errors]
          /\ heap'[multiResults[p].warnings] = heap[multiResults[p].warnings]
          /\ p \in DOMAIN multiResults'
          /\ (multiResults'[p] # multiResults[p]) =>
                (mpc = "validating" /\ paths[target] = p)]_vars

\* C26 witness: one validator validated two targets; the first result holds
\* errors, the second holds none, and both were returned.
C26_Witness ==
    /\ mpc = "returned"
    /\ Len(paths) >= 2
    /\ paths[1] # paths[2]
    /\ heap[multiResults[paths[1]].errors] # <<>>
    /\ ~multiResults[paths[1]].valid
    /\ heap[multiResults[paths[2]].errors] = <<>>
    /\ multiResults[paths[2]].valid

(***************************************************************************)
(* Further claims about validateUrlset (checked under SpecContent).        *)
(***************************************************************************)
\* the location has an ampersand that does not begin an escaped "&amp;"
HasBareAmpersand(loc) == loc \in {"https://a/p?x=1&y=2", "https://a/p?x=1&amp;y=2&z=3"}

\* C31: for every URL-set entry, an 'Unescaped ampersand' error is recorded
\* for it if and only if its location has at least one ampersand that does
\* not begin an escaped "&amp;"; a location with both an escaped and a bare
\* ampersand is reported.
C31_BareAmpersandReported ==
    contentResults # <<>> =>
        \A i \in 1..Len(content.url) :
            (content.url[i].loc # "" /\ HasBareAmpersand(content.url[i].loc))
            <=> \E k \in 1..Len(contentResults[1].errors) :
                   contentResults[1].errors[k] =
                       "URL " \o String(i) \o ": Unescaped ampersand: " \o content.url[i].loc

(***************************************************************************)
(* Further claims about the orchestrator's run() (checked under SpecBatch).*)
(***************************************************************************)
\* C33: a run that finds the range store without ranges ends with the fatal
\* exit (process.exit(1)); it starts no audit and does not write the store.
C33_EmptyStoreIsFatal ==
    (bpc # "start" /\ startStore = <<>>) =>
        /\ bpc = "fatal"
        /\ auditCalls = <<>>
        /\ storeWrites = 0
        /\ store = startStore
        /\ storeHeader = startHeader

\* C33 witness: a run on a store without ranges has ended with the fatal
\* exit.
C33_Witness ==
    /\ startStore = <<>>
    /\ rows = <<>>
    /\ bpc = "fatal"
    /\ storeWrites = 0

(***************************************************************************)
(* Claims about the grouping script (checked under SpecGroup).             *)
(***************************************************************************)
\* the ranges of the written store that hold row number r
RangesHolding(r) ==
    { k \in 1..Len(groupings) : groupings[k].FirstRow <= r /\ r <= groupings[k].LastRow }

\* C32: the ranges the grouping script emits are in ascending row order with
\* First Row <= Last Row, and every data row from startRow on whose URL
\* parses as an election URL lies in exactly one emitted range, which bears
\* the row's state and type; also when the last row is no election URL.
C32_EveryElectionRowInOneRange ==
    gpc = "written" =>
        /\ \A k \in 1..Len(groupings) : groupings[k].FirstRow <= groupings[k].LastRow
        /\ \A k \in 1..(Len(groupings) - 1) :
              groupings[k].LastRow < groupings[k + 1].FirstRow
        /\ \A i \in 1..Len(dataRows) :
              ParseUrl(dataRows[i]) # NoElection =>
                  /\ Cardinality(RangesHolding(startRow + i - 1)) = 1
                  /\ \A k \in RangesHolding(startRow + i - 1) :
                        /\ groupings[k].State = ParseUrl(dataRows[i]).state
                        /\ groupings[k].Type = ParseUrl(dataRows[i]).type

(***************************************************************************)
(* Claims about SitemapHealthCheck (checked under SpecHealth).             *)
(***************************************************************************)
\* the counted entries whose location an earlier counted entry had
SeenEarlier ==
    { i \in 1..Len(counted) : \E j \in 1..(i - 1) : counted[j] = counted[i] }

\* C34: after any sequence of processUrlset and sampleCheckUrls calls, the
\* report's 'Duplicate URLs' figure, totalUrls minus the size of
\* duplicateUrls, is the number of counted entries whose location had been
\* seen earlier in the run.
C34_DuplicateFigureCountsRepeats ==
    hpc = "idle" => DuplicateUrlsFigure = Cardinality(SeenEarlier)

====
